------------------------ MODULE CanonicalCodeProofs ------------------------
(* The loop of run_optimized() computes what the canonical bytecode would:   *)
(* opt_bytecode.hpp calls what it runs a translation, "Canonical Bytecode -> *)
(* OptBytecode".  Each step is followed by running the canonical code from   *)
(* where the instruction came from to where the loop has got to.             *)
EXTENDS OptimizerProofs

-----------------------------------------------------------------------------
(* Runs of the canonical code.                                               *)

(* n canonical instructions lead from m to s, none before ending at target.  *)
Path(g, m, s, n, target) ==
    /\ g[0] = m /\ g[n] = s
    /\ \A i \in 0 .. n - 1 : /\ g[i].outcome = "running" /\ (i > 0 => g[i].ip # target)
                             /\ g[i + 1] = Canonical(Reference, g[i])

Leads(m, s, n, target) == \E g : Path(g, m, s, n, target)

Ended(s) == IF s.outcome = "running" THEN s ELSE [s EXCEPT !.ip = 0]

(* No instruction and one more.                                              *)
LEMMA LeadsNowhere ==
    ASSUME NEW m, NEW target
    PROVE  Leads(m, m, 0, target)
<1>1. Path([i \in {0} |-> m], m, m, 0, target)
  BY DEF Path
<1> QED
  BY <1>1 DEF Leads

LEMMA LeadsOn ==
    ASSUME NEW m, NEW s, NEW n \in Nat, NEW target, Leads(m, s, n, target),
           s.outcome = "running", n > 0 => s.ip # target, NEW s1, s1 = Canonical(Reference, s)
    PROVE  Leads(m, s1, n + 1, target)
<1>1. PICK g : Path(g, m, s, n, target)
  BY DEF Leads
<1>2. PICK h : h = [i \in 0 .. n + 1 |-> IF i = n + 1 THEN s1 ELSE g[i]]
  OBVIOUS
<1>3. h[0] = m /\ h[n + 1] = s1
  BY <1>1, <1>2 DEF Path
<1>4. ASSUME NEW i \in 0 .. n
      PROVE  /\ h[i].outcome = "running" /\ (i > 0 => h[i].ip # target)
             /\ h[i + 1] = Canonical(Reference, h[i])
  <2>1. h[i] = g[i]
    BY <1>2
  <2>2. CASE i = n
    <3>1. h[i] = s /\ h[i + 1] = s1
      BY <1>1, <1>3, <2>1, <2>2 DEF Path
    <3> QED
      BY <2>2, <3>1
  <2>3. CASE i # n
    <3>1. i \in 0 .. n - 1 /\ i + 1 \in 0 .. n /\ i + 1 # n + 1
      BY <2>3
    <3>2. h[i + 1] = g[i + 1]
      BY <1>2, <3>1
    <3>3. /\ g[i].outcome = "running" /\ (i > 0 => g[i].ip # target)
          /\ g[i + 1] = Canonical(Reference, g[i])
      BY <1>1, <3>1 DEF Path
    <3> QED
      BY <2>1, <3>2, <3>3
  <2> QED
    BY <2>2, <2>3
<1>5. (n + 1) - 1 = n
  OBVIOUS
<1>6. Path(h, m, s1, n + 1, target)
  BY <1>3, <1>4, <1>5 DEF Path
<1> QED
  BY <1>6 DEF Leads

(* Where they lead is what RunTo says when it is at most 20 instructions on. *)
LEMMA RunsThere ==
    ASSUME NEW m, NEW s, NEW n \in 1 .. 20, NEW target, Leads(m, s, n, target),
           s.outcome # "running" \/ s.ip = target
    PROVE  RunTo(m, target) = Ended(s)
<1>1. PICK g : Path(g, m, s, n, target)
  BY DEF Leads
<1> DEFINE Step1(f, i) == IF i = 0 THEN m
                          ELSE LET before == f[i - 1]
                               IN  IF before.outcome # "running" \/ (i > 1 /\ before.ip = target)
                                   THEN before ELSE Canonical(Reference, before)
           after == CHOOSE f : f = [i \in Nat |-> Step1(f, i)]
<1>2. PICK h : h = [i \in Nat |-> IF i <= n THEN g[i] ELSE s]
  OBVIOUS
<1>3. ASSUME NEW i \in Nat PROVE h[i] = Step1(h, i)
  <2>1. CASE i = 0
    BY <1>1, <1>2, <2>1 DEF Path
  <2>2. CASE i \in 1 .. n
    <3>1. i - 1 \in 0 .. n - 1 /\ (i - 1) + 1 = i /\ i - 1 \in Nat /\ i - 1 <= n /\ i <= n /\ i # 0
          /\ (i > 1 <=> i - 1 > 0)
      BY <2>2
    <3>2. h[i] = g[i] /\ h[i - 1] = g[i - 1]
      BY <1>2, <3>1
    <3>3. /\ g[i - 1].outcome = "running" /\ (i - 1 > 0 => g[i - 1].ip # target)
          /\ g[i] = Canonical(Reference, g[i - 1])
      BY <1>1, <3>1 DEF Path
    <3> QED
      BY <3>1, <3>2, <3>3
  <2>3. CASE i > n
    <3>1. i - 1 \in Nat /\ i > 1 /\ i # 0 /\ ~(i <= n) /\ (i - 1 <= n => i - 1 = n)
      BY <2>3
    <3>2. h[i] = s
      BY <1>2, <3>1
    <3>3. h[i - 1] = s
      BY <1>1, <1>2, <3>1 DEF Path
    <3> QED
      BY <3>1, <3>2, <3>3
  <2> QED
    BY <2>1, <2>2, <2>3
<1> HIDE DEF Step1
<1>4. h = [i \in Nat |-> Step1(h, i)]
  <2>1. h = [i \in Nat |-> h[i]]
    BY <1>2
  <2> QED
    BY <1>3, <2>1
<1>5. after = [i \in Nat |-> Step1(after, i)]
  BY <1>4
<1> HIDE DEF after
<1>6. after[20] = h[20]
  <2> DEFINE X == {i \in Nat : after[i] = h[i]}
  <2>1. 0 \in X
    BY <1>4, <1>5 DEF Step1
  <2>2. ASSUME NEW i \in X PROVE i + 1 \in X
    <3>1. i \in Nat /\ i + 1 \in Nat /\ (i + 1) - 1 = i /\ i + 1 # 0 /\ after[i] = h[i]
      OBVIOUS
    <3>2. after[i + 1] = Step1(after, i + 1) /\ h[i + 1] = Step1(h, i + 1)
      BY <1>4, <1>5, <3>1
    <3>3. Step1(after, i + 1) = Step1(h, i + 1)
      BY <3>1 DEF Step1
    <3> QED
      BY <3>1, <3>2, <3>3
  <2>3. X \subseteq Nat
    OBVIOUS
  <2> HIDE DEF X
  <2>4. ASSUME NEW i \in X PROVE i + 4 \in X
    <3>1. i + 1 \in X
      BY <2>2
    <3>2. (i + 1) + 1 \in X
      BY <2>2, <3>1
    <3>3. ((i + 1) + 1) + 1 \in X
      BY <2>2, <3>2
    <3>4. (((i + 1) + 1) + 1) + 1 \in X
      BY <2>2, <3>3
    <3>5. i \in Nat
      BY <2>3
    <3> QED
      BY <3>4, <3>5
  <2>5. 0 + 4 \in X /\ 4 + 4 \in X /\ 8 + 4 \in X /\ 12 + 4 \in X /\ 16 + 4 \in X
    BY <2>1, <2>4
  <2>6. 20 \in X
    BY <2>5
  <2> QED
    BY <2>6 DEF X
<1>7. h[20] = s
  BY <1>1, <1>2 DEF Path
<1>8. RunTo(m, target) = IF after[20].outcome = "running" THEN after[20] ELSE [after[20] EXCEPT !.ip = 0]
  BY DEF RunTo, after, Step1
<1> QED
  BY <1>6, <1>7, <1>8 DEF Ended

(* Instructions on two operands. *)
LEMMA ExecBinary ==
    ASSUME NEW ch, NEW m, NEW p, NEW o \in Binaries
    PROVE  ExecAt(ch, m, p, o) =
               Advance(m, 1, Append(Drop(m.ops, 2), Apply(o, Args(m.ops, 2)[1], Peek(m.ops))))
<1>1. o \in 32 .. 53
  BY OpNumbers DEF Binaries
<1>2. /\ o # Op.PUSH_INT /\ o # Op.PUSH_STRING /\ o # Op.PUSH_BOOL /\ o # Op.POP
      /\ o # Op.DUP /\ o # Op.LOAD_LOCAL /\ o # Op.STORE_LOCAL /\ o # Op.JUMP
      /\ o # Op.JUMP_IF_FALSE /\ o # Op.BRANCH_3 /\ o # Op.CALL /\ o # Op.RET
      /\ o # Op.PRINTLN /\ o # Op.NEW_INSTANCE /\ o # Op.GET_FIELD /\ o # Op.SET_FIELD
      /\ o # Op.INVOKE_METHOD /\ o # Op.TRY /\ o # Op.POP_TRY /\ o # Op.THROW
      /\ o # Op.HALT
  BY <1>1, OpNumbers
<1>3. o \in Binaries
  OBVIOUS
<1> QED
  BY ONLY <1>2, <1>3 DEF ExecAt

(* A machine at ip with other variables and another stack.                   *)
At3(m, ip, locals, ops) == [m EXCEPT !.ip = ip, !.locals = locals, !.ops = ops]

(* A machine at another place, with other variables and operands.            *)
LEMMA MovedState ==
    ASSUME NEW m, DOMAIN m = SyncedFields, NEW ip, NEW locals, NEW ops,
           NEW s, s = At3(m, ip, locals, ops)
    PROVE  /\ DOMAIN s = SyncedFields /\ s.ip = ip /\ s.locals = locals /\ s.ops = ops
           /\ s.top = m.top /\ s.calls = m.calls /\ s.tries = m.tries /\ s.heap = m.heap
           /\ s.out = m.out /\ s.outcome = m.outcome
           /\ LocalBase(s) = LocalBase(m)
           /\ \A n : Local(s, n) = Cell(locals, LocalBase(m) + n)
<1>1. /\ DOMAIN s = SyncedFields /\ s.ip = ip /\ s.locals = locals /\ s.ops = ops
      /\ s.top = m.top /\ s.calls = m.calls /\ s.tries = m.tries /\ s.heap = m.heap
      /\ s.out = m.out /\ s.outcome = m.outcome
  BY DEF At3, SyncedFields, VMFields
<1>3. LocalBase(s) = LocalBase(m)
  BY <1>1 DEF LocalBase
<1>4. \A n : Local(s, n) = Cell(locals, LocalBase(m) + n)
  BY <1>1, <1>3 DEF Local
<1> QED
  BY <1>1, <1>3, <1>4

LEMMA MovedOn ==
    ASSUME NEW m, DOMAIN m = SyncedFields, NEW ip, NEW locals, NEW ops,
           NEW s, s = At3(m, ip, locals, ops), NEW n, NEW o
    PROVE  Advance(s, n, o) = At3(m, ip + n, locals, o)
BY DEF At3, SyncedFields, VMFields, Advance

LEMMA StoredState ==
    ASSUME NEW m, DOMAIN m = SyncedFields, NEW ip, NEW locals, NEW ops, NEW n \in Nat,
           LocalBase(m) \in Nat, m.top \in Nat, LocalBase(m) + n < m.top, NEW v,
           NEW s, s = At3(m, ip, locals, ops)
    PROVE  SetLocal(s, n, v) = At3(m, ip, WriteCells(locals, LocalBase(m) + n, <<v>>), ops)
<1>1. /\ DOMAIN s = SyncedFields /\ s.locals = locals /\ s.top = m.top
      /\ LocalBase(s) = LocalBase(m)
  BY MovedState
<1>2. PICK w : w = WriteCells(locals, LocalBase(m) + n, <<v>>)
  OBVIOUS
<1>3. [s EXCEPT !.locals = w] = At3(m, ip, w, ops)
  BY DEF At3, SyncedFields, VMFields
<1>4. ~(LocalBase(m) + n >= m.top)
  OBVIOUS
<1>5. SetLocal(s, n, v) = [s EXCEPT !.locals = w, !.top = s.top]
  BY <1>1, <1>2, <1>4 DEF SetLocal
<1>6. [s EXCEPT !.locals = w, !.top = s.top] = [s EXCEPT !.locals = w]
  BY <1>1 DEF SyncedFields, VMFields
<1> QED
  BY <1>2, <1>3, <1>5, <1>6

(* The stack under the values that were put on it.                           *)
LEMMA OnTop ==
    ASSUME NEW V, NEW r \in Seq(V), NEW a \in V, NEW ops, ops = Append(r, a)
    PROVE  /\ ops \in Seq(V) /\ Len(ops) = Len(r) + 1
           /\ Peek(ops) = a /\ Drop(ops, 1) = r
<1>1. PICK h \in Nat : Len(r) = h
  BY LenProperties
<1>2. ops \in Seq(V) /\ Len(ops) = h + 1 /\ ops[h + 1] = a /\ \A i \in 1 .. h : ops[i] = r[i]
  BY <1>1, AppendProperties
<1>3. Peek(ops) = a
  BY <1>2 DEF Peek
<1>4. Drop(ops, 1) = r
  <2>1. (h + 1) - 1 = h
    OBVIOUS
  <2>2. Drop(ops, 1) = SubSeq(ops, 1, h)
    BY <1>2, <2>1 DEF Drop
  <2> QED
    BY <1>1, <1>2, <2>2, Prefix
<1> QED
  BY <1>1, <1>2, <1>3, <1>4

Two(r, a, b) == Append(Append(r, a), b)

LEMMA TwoOnTop ==
    ASSUME NEW V, NEW r \in Seq(V), NEW a \in V, NEW b \in V
    PROVE  /\ Peek(Two(r, a, b)) = b /\ Args(Two(r, a, b), 2)[1] = a
           /\ Drop(Two(r, a, b), 2) = r
<1>11. \A k \in Nat : (k + 2) - 2 + 1 = k + 1 /\ (k + 2) - (k + 1) + 1 = 2
  OBVIOUS
<1>0. PICK s : s = Append(r, a)
  OBVIOUS
<1>9. PICK ops : ops = Append(s, b)
  OBVIOUS
<1>10. ops = Two(r, a, b)
  BY <1>0, <1>9 DEF Two
<1>1. PICK h \in Nat : Len(r) = h
  BY LenProperties
<1>3. s \in Seq(V) /\ Len(s) = h + 1 /\ s[h + 1] = a /\ \A i \in 1 .. h : s[i] = r[i]
  BY <1>0, <1>1, AppendProperties
<1>4. /\ ops \in Seq(V) /\ Len(ops) = h + 2 /\ ops[h + 2] = b
      /\ \A i \in 1 .. h + 1 : ops[i] = s[i]
  <2>1. (h + 1) + 1 = h + 2
    OBVIOUS
  <2> QED
    BY <1>9, <1>3, <2>1, AppendProperties
<1>5. /\ ops[h + 1] = a /\ \A i \in 1 .. h : ops[i] = r[i]
  BY <1>3, <1>4
<1>6. Peek(ops) = b
  BY <1>4 DEF Peek
<1>7. Drop(ops, 2) = r
  <2>1. (h + 2) - 2 = h
    OBVIOUS
  <2>2. Drop(ops, 2) = SubSeq(ops, 1, h)
    BY <1>4, <2>1 DEF Drop
  <2>3. ops \in Seq(V) /\ h \in 0 .. Len(ops)
    BY <1>4
  <2>4. PICK u : u = SubSeq(ops, 1, h)
    OBVIOUS
  <2>5. u \in Seq(V) /\ Len(u) = h /\ \A i \in 1 .. h : u[i] = ops[i]
    BY <2>3, <2>4, Prefix
  <2>6. \A i \in 1 .. h : u[i] = r[i]
    BY <1>5, <2>5
  <2>7. u = r
    BY <1>1, <2>5, <2>6, SeqEqual
  <2> QED
    BY <2>2, <2>4, <2>7
<1>8. Args(ops, 2)[1] = a
  <2>1. (h + 2) - 2 + 1 = h + 1 /\ (h + 2) - (h + 1) + 1 = 2
    BY <1>11
  <2>2. Args(ops, 2) = SubSeq(ops, h + 1, h + 2)
    BY <1>4, <2>1 DEF Args
  <2>3. h + 1 \in 1 .. h + 2 /\ 1 \in 1 .. (h + 2) - (h + 1) + 1 /\ (h + 1) + 1 - 1 = h + 1
    OBVIOUS
  <2>4. SubSeq(ops, h + 1, h + 2)[1] = ops[(h + 1) + 1 - 1]
    BY <1>4, <2>3, SubSeqProperties
  <2> QED
    BY <1>5, <2>2, <2>3, <2>4
<1> QED
  BY <1>6, <1>7, <1>8, <1>10

(* Canonical instructions in such a state.                                   *)
LEMMA Loads ==
    ASSUME NEW ch, NEW m, DOMAIN m = SyncedFields, NEW ip, NEW locals, NEW ops,
           Byte(ch.code, ip) = Op.LOAD_LOCAL, NEW v,
           v = Cell(locals, LocalBase(m) + UInt16(ch.code, ip + 1))
    PROVE  Canonical(ch, At3(m, ip, locals, ops)) = At3(m, ip + 3, locals, Append(ops, v))
<1>1. PICK s : s = At3(m, ip, locals, ops)
  OBVIOUS
<1>2. s.ip = ip /\ s.ops = ops /\ Local(s, UInt16(ch.code, ip + 1)) = v
  BY <1>1, MovedState
<1>3. ExecAt(ch, s, ip, Op.LOAD_LOCAL) = Advance(s, 3, Append(s.ops, Local(s, UInt16(ch.code, ip + 1))))
  BY OpNumbers DEF ExecAt, Binaries
<1>4. Canonical(ch, s) = Advance(s, 3, Append(ops, v))
  BY <1>2, <1>3 DEF Canonical
<1> QED
  BY <1>1, <1>4, MovedOn

LEMMA PushesNumber ==
    ASSUME NEW ch, NEW m, DOMAIN m = SyncedFields, NEW ip, NEW locals, NEW ops,
           Byte(ch.code, ip) = Op.PUSH_INT, NEW v, v = Number(Int64(ch.code, ip + 1))
    PROVE  Canonical(ch, At3(m, ip, locals, ops)) = At3(m, ip + 9, locals, Append(ops, v))
<1>1. PICK s : s = At3(m, ip, locals, ops)
  OBVIOUS
<1>2. s.ip = ip /\ s.ops = ops
  BY <1>1, MovedState
<1>3. ExecAt(ch, s, ip, Op.PUSH_INT) = Advance(s, 9, Append(s.ops, Number(Int64(ch.code, ip + 1))))
  BY OpNumbers DEF ExecAt, Binaries
<1>4. Canonical(ch, s) = Advance(s, 9, Append(ops, v))
  BY <1>2, <1>3 DEF Canonical
<1> QED
  BY <1>1, <1>4, MovedOn

LEMMA Combines ==
    ASSUME NEW ch, NEW m, DOMAIN m = SyncedFields, NEW ip, NEW locals, NEW o \in Binaries,
           Byte(ch.code, ip) = o, NEW V, NEW r \in Seq(V), NEW a \in V, NEW b \in V,
           NEW ops, ops = Two(r, a, b), NEW v, v = Apply(o, a, b)
    PROVE  Canonical(ch, At3(m, ip, locals, ops)) = At3(m, ip + 1, locals, Append(r, v))
<1>1. PICK s : s = At3(m, ip, locals, ops)
  OBVIOUS
<1>2. s.ip = ip /\ s.ops = ops
  BY <1>1, MovedState
<1>3. ExecAt(ch, s, ip, o) = Advance(s, 1, Append(Drop(s.ops, 2), Apply(o, Args(s.ops, 2)[1], Peek(s.ops))))
  BY ExecBinary
<1>4. r \in Seq(V) /\ a \in V /\ b \in V /\ ops = Two(r, a, b)
  OBVIOUS
<1>5. /\ Peek(Two(r, a, b)) = b /\ Args(Two(r, a, b), 2)[1] = a
      /\ Drop(Two(r, a, b), 2) = r
  BY TwoOnTop
<1>6. Canonical(ch, s) = Advance(s, 1, Append(r, v))
  BY <1>2, <1>3, <1>4, <1>5 DEF Canonical
<1>7. Advance(s, 1, Append(r, v)) = At3(m, ip + 1, locals, Append(r, v))
  BY <1>1, MovedOn
<1> QED
  BY <1>1, <1>6, <1>7

LEMMA Stores ==
    ASSUME NEW ch, NEW m, DOMAIN m = SyncedFields, NEW ip, NEW locals, NEW ops,
           Byte(ch.code, ip) = Op.STORE_LOCAL, NEW n \in Nat, n = UInt16(ch.code, ip + 1),
           LocalBase(m) \in Nat, m.top \in Nat, LocalBase(m) + n < m.top, NEW v, v = Peek(ops)
    PROVE  Canonical(ch, At3(m, ip, locals, ops)) =
               At3(m, ip + 3, WriteCells(locals, LocalBase(m) + n, <<v>>), ops)
<1>1. PICK s : s = At3(m, ip, locals, ops)
  OBVIOUS
<1>2. s.ip = ip /\ s.ops = ops
  BY <1>1, MovedState
<1>3. ExecAt(ch, s, ip, Op.STORE_LOCAL) = Advance(SetLocal(s, UInt16(ch.code, ip + 1), Peek(s.ops)), 3, s.ops)
  BY OpNumbers DEF ExecAt, Binaries
<1>4. Canonical(ch, s) = Advance(SetLocal(s, n, v), 3, ops)
  BY <1>2, <1>3 DEF Canonical
<1>5. PICK w : w = WriteCells(locals, LocalBase(m) + n, <<v>>)
  OBVIOUS
<1>6. SetLocal(s, n, v) = At3(m, ip, w, ops)
  BY <1>1, <1>5, StoredState
<1>7. Advance(At3(m, ip, w, ops), 3, ops) = At3(m, ip + 3, w, ops)
  BY MovedOn
<1> QED
  BY <1>1, <1>4, <1>5, <1>6, <1>7

LEMMA Drops ==
    ASSUME NEW ch, NEW m, DOMAIN m = SyncedFields, NEW ip, NEW locals,
           Byte(ch.code, ip) = Op.POP, NEW V, NEW r \in Seq(V), NEW v \in V
    PROVE  Canonical(ch, At3(m, ip, locals, Append(r, v))) = At3(m, ip + 1, locals, r)
<1>0. PICK ops : ops = Append(r, v)
  OBVIOUS
<1>1. PICK s : s = At3(m, ip, locals, ops)
  OBVIOUS
<1>2. s.ip = ip /\ s.ops = ops
  BY <1>1, MovedState
<1>3. ExecAt(ch, s, ip, Op.POP) = Advance(s, 1, Drop(s.ops, 1))
  BY OpNumbers DEF ExecAt, Binaries
<1>4. Drop(ops, 1) = r
  BY <1>0, OnTop
<1>5. Canonical(ch, s) = Advance(s, 1, r)
  BY <1>2, <1>3, <1>4 DEF Canonical
<1>6. Advance(s, 1, r) = At3(m, ip + 1, locals, r)
  BY <1>1, MovedOn
<1> QED
  BY <1>0, <1>1, <1>5, <1>6

-----------------------------------------------------------------------------
(* What a state of the loop stands for.                                      *)

(* A machine of the canonical code that a state of run_optimized stands for. *)
CallsFrom(org, calls) == [k \in DOMAIN calls |-> [calls[k] EXCEPT !.ret = org[@]]]
TriesFrom(org, tries) == [k \in DOMAIN tries |-> [tries[k] EXCEPT !.catch = org[@]]]
PlaceFrom(org, ip, outcome) == IF outcome = "running" THEN org[ip] ELSE 0

IsMachine(m) == m = [f \in SyncedFields |-> m[f]]

Means(m, org, v, c) ==
    /\ IsMachine(m) /\ m.ops = Contents(c) /\ m.ip = PlaceFrom(org, v.ip, v.outcome)
    /\ m.locals = v.locals /\ m.top = v.top /\ m.calls = CallsFrom(org, v.calls)
    /\ m.tries = TriesFrom(org, v.tries) /\ m.heap = v.heap /\ m.out = v.out
    /\ m.outcome = v.outcome

LEMMA SameMachine ==
    ASSUME NEW m, NEW n, IsMachine(m), IsMachine(n),
           m.ops = n.ops, m.ip = n.ip, m.locals = n.locals, m.top = n.top, m.calls = n.calls,
           m.tries = n.tries, m.heap = n.heap, m.out = n.out, m.outcome = n.outcome
    PROVE  m = n
<1>1. \A f \in SyncedFields : m[f] = n[f]
  BY DEF SyncedFields, VMFields
<1> QED
  BY <1>1 DEF IsMachine

LEMMA SameMeaning ==
    ASSUME NEW org, NEW v, NEW c, NEW m, NEW n, Means(m, org, v, c), Means(n, org, v, c)
    PROVE  m = n
BY SameMachine DEF Means

LEMMA MachineFields ==
    ASSUME NEW m, IsMachine(m)
    PROVE  DOMAIN m = SyncedFields
BY DEF IsMachine

LEMMA ChangedIs ==
    ASSUME NEW m, IsMachine(m), NEW f \in SyncedFields, NEW v, NEW n, n = [m EXCEPT ![f] = v]
    PROVE  IsMachine(n)
BY DEF IsMachine

LEMMA MovedIs ==
    ASSUME NEW m, IsMachine(m), NEW ip, NEW locals, NEW ops, NEW s, s = At3(m, ip, locals, ops)
    PROVE  IsMachine(s)
BY DEF IsMachine, At3, SyncedFields, VMFields

(* Meaning is the machine that Means describes.                              *)
LEMMA MeaningMeans ==
    Means(Meaning, opt.origin, vm, cache)
<1> DEFINE m == Meaning
<1>1. IsMachine(m)
  BY DEF Meaning, Synced, SyncedFields, VMFields, IsMachine
<1>2. m.ops = Contents(cache)
  BY DEF Meaning, Synced
<1>3. m.ip = PlaceFrom(opt.origin, vm.ip, vm.outcome)
  BY DEF Meaning, Synced, PlaceFrom, Origin
<1> DEFINE ip1    == IF vm.outcome = "running" THEN Origin(Synced.ip) ELSE 0
           calls1 == [k \in DOMAIN Synced.calls |->
                         CallFrom(Synced.calls[k])]
           tries1 == [k \in DOMAIN Synced.tries |->
                         TryFrom(Synced.tries[k])]
<1>8. m = [Synced EXCEPT !.ip = ip1, !.calls = calls1, !.tries = tries1]
  BY DEF Meaning
<1>9. DOMAIN Synced = SyncedFields /\ Synced.calls = vm.calls /\ Synced.tries = vm.tries
  BY DEF Synced, SyncedFields, VMFields
<1>4. m.calls = CallsFrom(opt.origin, vm.calls)
  <2>1. m.calls = calls1
    <3> HIDE DEF m, calls1, tries1, ip1
    <3> QED
      BY <1>8, <1>9 DEF SyncedFields, VMFields
  <2> QED
    BY <1>9, <2>1 DEF CallsFrom, CallFrom, Origin
<1>5. m.tries = TriesFrom(opt.origin, vm.tries)
  <2>1. m.tries = tries1
    <3> HIDE DEF m, calls1, tries1, ip1
    <3> QED
      BY <1>8, <1>9 DEF SyncedFields, VMFields
  <2> QED
    BY <1>9, <2>1 DEF TriesFrom, TryFrom, Origin
<1>6. m.locals = vm.locals /\ m.top = vm.top
  BY DEF Meaning, Synced
<1>7. m.heap = vm.heap /\ m.out = vm.out /\ m.outcome = vm.outcome
  BY DEF Meaning, Synced
<1> HIDE DEF m
<1> QED
  BY <1>1, <1>2, <1>3, <1>4, <1>5, <1>6, <1>7 DEF Means, m

LEMMA MeaningMeansNext ==
    ASSUME opt' = opt
    PROVE  Means(Meaning', opt.origin, vm', cache')
<1>1. Means(Meaning', opt'.origin, vm', cache')
  <2>1. Means(Meaning, opt.origin, vm, cache)'
    BY MeaningMeans, PTL
  <2> QED
    BY <2>1
<1> QED
  BY <1>1

(* The code at work was made from the chunk.                                 *)
Matching(L) ==
    /\ Faithful(chunk, opt, L)
    /\ opt.vtables = chunk.vtables /\ opt.strings = chunk.strings

(* The canonical code, with the names and tables both codes share.           *)
LEMMA ReferenceIs ==
    ASSUME NEW L, Matching(L)
    PROVE  /\ Reference.code = chunk.code /\ Reference.functions = chunk.functions
           /\ Reference.vtables = opt.vtables /\ Reference.strings = opt.strings
           /\ Reference.frames = opt.frames
<1>1. {"code", "functions", "frames", "vtables", "strings"} \subseteq DOMAIN chunk
  BY DEF Matching, Faithful
<1> QED
  BY <1>1 DEF Matching, Reference

(* Frames and blocks with their places mapped.                               *)
LEMMA IsSequence ==
    ASSUME NEW n \in Nat, NEW s, DOMAIN s = 1 .. n, s = [k \in 1 .. n |-> s[k]]
    PROVE  \E X : s \in Seq(X) /\ Len(s) = n
<1> DEFINE X == {s[k] : k \in 1 .. n}
<1>1. s \in [1 .. n -> X]
  OBVIOUS
<1> HIDE DEF X
<1>2. s \in Seq(X) /\ Len(s) = n
  BY <1>1
<1> QED
  BY <1>2

(* The frames and handlers at the addresses they come from.                  *)
LEMMA MappedCalls ==
    ASSUME NEW org, NEW calls \in FrameRecords, NEW c, c = CallsFrom(org, calls),
           NEW n \in Nat, n = Len(calls)
    PROVE  /\ \E X : c \in Seq(X)
           /\ Len(c) = n /\ DOMAIN c = 1 .. n /\ (c = <<>> <=> calls = <<>>)
           /\ \A k \in 1 .. n : /\ c[k] = [calls[k] EXCEPT !.ret = org[@]]
                                /\ c[k].ret = org[calls[k].ret] /\ c[k].base = calls[k].base
                                /\ c[k].depth = calls[k].depth /\ c[k].size = calls[k].size
<1>1. DOMAIN calls = 1 .. n
  BY DEF FrameRecords
<1>2. /\ DOMAIN c = 1 .. n /\ c = [k \in 1 .. n |-> c[k]]
      /\ \A k \in 1 .. n : c[k] = [calls[k] EXCEPT !.ret = org[@]]
  BY <1>1 DEF CallsFrom
<1>3. PICK X : c \in Seq(X) /\ Len(c) = n
  BY <1>2, IsSequence
<1>4. ASSUME NEW k \in 1 .. n
      PROVE  /\ c[k].ret = org[calls[k].ret] /\ c[k].base = calls[k].base
             /\ c[k].depth = calls[k].depth /\ c[k].size = calls[k].size
  <2>1. calls[k] \in [ret : Nat, base : Nat, depth : Nat, size : Nat]
    BY <1>1, ElementOfSeq DEF FrameRecords
  <2>2. c[k] = [calls[k] EXCEPT !.ret = org[@]]
    BY <1>2
  <2> QED
    BY <2>1, <2>2
<1>5. c = <<>> <=> n = 0
  BY <1>3, EmptySeq
<1>6. calls = <<>> <=> n = 0
  BY EmptySeq DEF FrameRecords
<1> QED
  BY <1>2, <1>3, <1>4, <1>5, <1>6

LEMMA MappedTries ==
    ASSUME NEW org, NEW tries \in TryRecords, NEW c, c = TriesFrom(org, tries),
           NEW n \in Nat, n = Len(tries)
    PROVE  /\ \E X : c \in Seq(X)
           /\ Len(c) = n /\ DOMAIN c = 1 .. n /\ (c = <<>> <=> tries = <<>>)
           /\ \A k \in 1 .. n : /\ c[k] = [tries[k] EXCEPT !.catch = org[@]]
                                /\ c[k].catch = org[tries[k].catch] /\ c[k].top = tries[k].top
                                /\ c[k].depth = tries[k].depth /\ c[k].calls = tries[k].calls
<1>1. DOMAIN tries = 1 .. n
  BY DEF TryRecords
<1>2. /\ DOMAIN c = 1 .. n /\ c = [k \in 1 .. n |-> c[k]]
      /\ \A k \in 1 .. n : c[k] = [tries[k] EXCEPT !.catch = org[@]]
  BY <1>1 DEF TriesFrom
<1>3. PICK X : c \in Seq(X) /\ Len(c) = n
  BY <1>2, IsSequence
<1>4. ASSUME NEW k \in 1 .. n
      PROVE  /\ c[k].catch = org[tries[k].catch] /\ c[k].top = tries[k].top
             /\ c[k].depth = tries[k].depth /\ c[k].calls = tries[k].calls
  <2>1. tries[k] \in [catch : Nat, depth : Nat, top : Nat, calls : Nat]
    BY <1>1, ElementOfSeq DEF TryRecords
  <2>2. c[k] = [tries[k] EXCEPT !.catch = org[@]]
    BY <1>2
  <2> QED
    BY <2>1, <2>2
<1>5. c = <<>> <=> n = 0
  BY <1>3, EmptySeq
<1>6. tries = <<>> <=> n = 0
  BY EmptySeq DEF TryRecords
<1> QED
  BY <1>2, <1>3, <1>4, <1>5, <1>6

LEMMA OneCallsMapped ==
    ASSUME NEW org, NEW calls \in FrameRecords, NEW c, c = CallsFrom(org, calls),
           NEW n \in Nat, n = Len(calls), NEW k \in 1 .. n
    PROVE  /\ c[k].ret = org[calls[k].ret] /\ c[k].base = calls[k].base
           /\ c[k].depth = calls[k].depth /\ c[k].size = calls[k].size
<1>1. k \in DOMAIN calls
  BY DEF FrameRecords
<1>2. calls[k] \in [ret : Nat, base : Nat, depth : Nat, size : Nat]
  BY ElementOfSeq DEF FrameRecords
<1>3. c[k] = [calls[k] EXCEPT !.ret = org[@]]
  BY <1>1 DEF CallsFrom
<1> QED
  BY <1>2, <1>3

LEMMA OneTriesMapped ==
    ASSUME NEW org, NEW tries \in TryRecords, NEW c, c = TriesFrom(org, tries),
           NEW n \in Nat, n = Len(tries), NEW k \in 1 .. n
    PROVE  /\ c[k].catch = org[tries[k].catch] /\ c[k].top = tries[k].top
           /\ c[k].depth = tries[k].depth /\ c[k].calls = tries[k].calls
<1>1. k \in DOMAIN tries
  BY DEF TryRecords
<1>2. tries[k] \in [catch : Nat, depth : Nat, top : Nat, calls : Nat]
  BY ElementOfSeq DEF TryRecords
<1>3. c[k] = [tries[k] EXCEPT !.catch = org[@]]
  BY <1>1 DEF TriesFrom
<1> QED
  BY <1>2, <1>3

(* Frames that are left, and a frame that is entered.                        *)
LEMMA MappedCut ==
    ASSUME NEW org, NEW calls \in FrameRecords, NEW k \in 0 .. Len(calls)
    PROVE  CallsFrom(org, SubSeq(calls, 1, k)) = SubSeq(CallsFrom(org, calls), 1, k)
<1>1. PICK n \in Nat : n = Len(calls)
  BY LenProperties DEF FrameRecords
<1>2. PICK c : c = CallsFrom(org, calls)
  OBVIOUS
<1>3. PICK X : c \in Seq(X)
  BY <1>1, <1>2, MappedCalls
<1>4. Len(c) = n /\ \A i \in 1 .. n : c[i] = [calls[i] EXCEPT !.ret = org[@]]
  BY <1>1, <1>2, MappedCalls
<1>5. PICK d : d = SubSeq(calls, 1, k)
  OBVIOUS
<1>6. d \in FrameRecords /\ Len(d) = k /\ \A i \in 1 .. k : d[i] = calls[i]
  BY <1>5, Prefix DEF FrameRecords
<1>7. PICK e : e = CallsFrom(org, d)
  OBVIOUS
<1>8. PICK Y : e \in Seq(Y)
  BY <1>6, <1>7, MappedCalls
<1>9. Len(e) = k /\ \A i \in 1 .. k : e[i] = [d[i] EXCEPT !.ret = org[@]]
  BY <1>6, <1>7, MappedCalls
<1>10. PICK f : f = SubSeq(c, 1, k)
  OBVIOUS
<1>11. f \in Seq(X) /\ Len(f) = k /\ \A i \in 1 .. k : f[i] = c[i]
  BY <1>1, <1>3, <1>4, <1>10, Prefix
<1>12. \A i \in 1 .. k : e[i] = f[i]
  BY <1>1, <1>4, <1>6, <1>9, <1>11
<1>13. e = f
  <2>1. e \in Seq(X \cup Y) /\ f \in Seq(X \cup Y)
    BY <1>8, <1>11, LargerSeq
  <2> QED
    BY <1>9, <1>11, <1>12, <2>1, SeqEqual
<1> QED
  BY <1>2, <1>5, <1>7, <1>10, <1>13

LEMMA MappedEnter ==
    ASSUME NEW org, NEW calls \in FrameRecords, NEW ret \in Nat, NEW base \in Nat,
           NEW depth \in Nat, NEW size \in Nat, NEW f,
           f = [ret |-> ret, base |-> base, depth |-> depth, size |-> size],
           NEW g, g = [ret |-> org[ret], base |-> base, depth |-> depth, size |-> size]
    PROVE  CallsFrom(org, Append(calls, f)) = Append(CallsFrom(org, calls), g)
<1>1. PICK n \in Nat : n = Len(calls)
  BY LenProperties DEF FrameRecords
<1>2. PICK c : c = CallsFrom(org, calls)
  OBVIOUS
<1>3. PICK X : c \in Seq(X)
  BY <1>1, <1>2, MappedCalls
<1>4. Len(c) = n /\ \A i \in 1 .. n : c[i] = [calls[i] EXCEPT !.ret = org[@]]
  BY <1>1, <1>2, MappedCalls
<1>5. PICK d : d = Append(calls, f)
  OBVIOUS
<1>6. /\ d \in FrameRecords /\ Len(d) = n + 1 /\ d[n + 1] = f
      /\ \A i \in 1 .. n : d[i] = calls[i]
  BY <1>1, <1>5, AppendProperties DEF FrameRecords
<1>7. PICK e : e = CallsFrom(org, d)
  OBVIOUS
<1>8. PICK Y : e \in Seq(Y)
  BY <1>6, <1>7, MappedCalls
<1>9. Len(e) = n + 1 /\ \A i \in 1 .. n + 1 : e[i] = [d[i] EXCEPT !.ret = org[@]]
  BY <1>6, <1>7, MappedCalls
<1>10. PICK h : h = Append(c, g)
  OBVIOUS
<1>11. /\ h \in Seq(X \cup {g}) /\ Len(h) = n + 1 /\ h[n + 1] = g
       /\ \A i \in 1 .. n : h[i] = c[i]
  <2>1. c \in Seq(X \cup {g})
    BY <1>3, LargerSeq
  <2> QED
    BY <1>4, <1>10, <2>1, AppendProperties
<1>12. ASSUME NEW i \in 1 .. n + 1 PROVE e[i] = h[i]
  <2>1. CASE i = n + 1
    <3>1. [f EXCEPT !.ret = org[@]] = g
      OBVIOUS
    <3> QED
      BY <1>6, <1>9, <1>11, <2>1, <3>1
  <2>2. CASE i # n + 1
    <3>1. i \in 1 .. n
      BY <2>2
    <3>2. e[i] = [d[i] EXCEPT !.ret = org[@]]
      BY <1>9
    <3>3. d[i] = calls[i] /\ h[i] = c[i]
      BY ONLY <1>6, <1>11, <3>1
    <3>4. c[i] = [calls[i] EXCEPT !.ret = org[@]]
      BY ONLY <1>4, <3>1
    <3> QED
      BY ONLY <3>2, <3>3, <3>4
  <2> QED
    BY <2>1, <2>2
<1>13. e = h
  <2>1. e \in Seq((X \cup {g}) \cup Y) /\ h \in Seq((X \cup {g}) \cup Y)
    BY <1>8, <1>11, LargerSeq
  <2> QED
    BY <1>9, <1>11, <1>12, <2>1, SeqEqual
<1> QED
  BY <1>2, <1>5, <1>7, <1>10, <1>13

LEMMA MappedTriesCut ==
    ASSUME NEW org, NEW tries \in TryRecords, NEW k \in 0 .. Len(tries)
    PROVE  TriesFrom(org, SubSeq(tries, 1, k)) = SubSeq(TriesFrom(org, tries), 1, k)
<1>1. PICK n \in Nat : n = Len(tries)
  BY LenProperties DEF TryRecords
<1>2. PICK c : c = TriesFrom(org, tries)
  OBVIOUS
<1>3. PICK X : c \in Seq(X)
  BY <1>1, <1>2, MappedTries
<1>4. Len(c) = n /\ \A i \in 1 .. n : c[i] = [tries[i] EXCEPT !.catch = org[@]]
  BY <1>1, <1>2, MappedTries
<1>5. PICK d : d = SubSeq(tries, 1, k)
  OBVIOUS
<1>6. d \in TryRecords /\ Len(d) = k /\ \A i \in 1 .. k : d[i] = tries[i]
  BY <1>5, Prefix DEF TryRecords
<1>7. PICK e : e = TriesFrom(org, d)
  OBVIOUS
<1>8. PICK Y : e \in Seq(Y)
  BY <1>6, <1>7, MappedTries
<1>9. Len(e) = k /\ \A i \in 1 .. k : e[i] = [d[i] EXCEPT !.catch = org[@]]
  BY <1>6, <1>7, MappedTries
<1>10. PICK f : f = SubSeq(c, 1, k)
  OBVIOUS
<1>11. f \in Seq(X) /\ Len(f) = k /\ \A i \in 1 .. k : f[i] = c[i]
  BY <1>1, <1>3, <1>4, <1>10, Prefix
<1>12. \A i \in 1 .. k : e[i] = f[i]
  BY <1>1, <1>4, <1>6, <1>9, <1>11
<1>13. e = f
  <2>1. e \in Seq(X \cup Y) /\ f \in Seq(X \cup Y)
    BY <1>8, <1>11, LargerSeq
  <2> QED
    BY <1>9, <1>11, <1>12, <2>1, SeqEqual
<1> QED
  BY <1>2, <1>5, <1>7, <1>10, <1>13

LEMMA MappedOpen ==
    ASSUME NEW org, NEW tries \in TryRecords, NEW catch \in Nat, NEW depth \in Nat,
           NEW top \in Nat, NEW calls \in Nat, NEW f,
           f = [catch |-> catch, depth |-> depth, top |-> top, calls |-> calls],
           NEW g, g = [catch |-> org[catch], depth |-> depth, top |-> top, calls |-> calls]
    PROVE  TriesFrom(org, Append(tries, f)) = Append(TriesFrom(org, tries), g)
<1>1. PICK n \in Nat : n = Len(tries)
  BY LenProperties DEF TryRecords
<1>2. PICK c : c = TriesFrom(org, tries)
  OBVIOUS
<1>3. PICK X : c \in Seq(X)
  BY <1>1, <1>2, MappedTries
<1>4. Len(c) = n /\ \A i \in 1 .. n : c[i] = [tries[i] EXCEPT !.catch = org[@]]
  BY <1>1, <1>2, MappedTries
<1>5. PICK d : d = Append(tries, f)
  OBVIOUS
<1>6. /\ d \in TryRecords /\ Len(d) = n + 1 /\ d[n + 1] = f
      /\ \A i \in 1 .. n : d[i] = tries[i]
  BY <1>1, <1>5, AppendProperties DEF TryRecords
<1>7. PICK e : e = TriesFrom(org, d)
  OBVIOUS
<1>8. PICK Y : e \in Seq(Y)
  BY <1>6, <1>7, MappedTries
<1>9. Len(e) = n + 1 /\ \A i \in 1 .. n + 1 : e[i] = [d[i] EXCEPT !.catch = org[@]]
  BY <1>6, <1>7, MappedTries
<1>10. PICK h : h = Append(c, g)
  OBVIOUS
<1>11. /\ h \in Seq(X \cup {g}) /\ Len(h) = n + 1 /\ h[n + 1] = g
       /\ \A i \in 1 .. n : h[i] = c[i]
  <2>1. c \in Seq(X \cup {g})
    BY <1>3, LargerSeq
  <2> QED
    BY <1>4, <1>10, <2>1, AppendProperties
<1>12. ASSUME NEW i \in 1 .. n + 1 PROVE e[i] = h[i]
  <2>1. CASE i = n + 1
    <3>1. [f EXCEPT !.catch = org[@]] = g
      OBVIOUS
    <3> QED
      BY <1>6, <1>9, <1>11, <2>1, <3>1
  <2>2. CASE i # n + 1
    <3>1. i \in 1 .. n
      BY <2>2
    <3>2. h[i] = [tries[i] EXCEPT !.catch = org[@]]
      BY <1>4, <1>11, <3>1
    <3>3. e[i] = [d[i] EXCEPT !.catch = org[@]]
      BY <1>9
    <3>4. d[i] = tries[i]
      BY <1>6, <3>1
    <3> QED
      BY <3>2, <3>3, <3>4
  <2> QED
    BY <2>1, <2>2
<1>13. e = h
  <2>1. e \in Seq((X \cup {g}) \cup Y) /\ h \in Seq((X \cup {g}) \cup Y)
    BY <1>8, <1>11, LargerSeq
  <2> QED
    BY <1>9, <1>11, <1>12, <2>1, SeqEqual
<1> QED
  BY <1>2, <1>5, <1>7, <1>10, <1>13

-----------------------------------------------------------------------------
(* The machine of the canonical code before a step.                          *)
Before(L, V, m, q) ==
    /\ m = Meaning /\ IsMachine(m) /\ DOMAIN m = SyncedFields /\ m.outcome = "running"
    /\ q = opt.origin[vm.ip] /\ q \in Nat /\ m.ip = q
    /\ m.locals = vm.locals /\ m.ops = Contents(cache) /\ m.top = vm.top
    /\ m.calls = CallsFrom(opt.origin, vm.calls) /\ m.tries = TriesFrom(opt.origin, vm.tries)
    /\ m.heap = vm.heap /\ m.out = vm.out
    /\ LocalBase(m) = LocalBase(vm) /\ LocalBase(m) \in Nat
    /\ m = At3(m, q, vm.locals, Contents(cache))
    /\ vm.ip \in DOMAIN L /\ vm.ip \in Nat /\ StandsFor(chunk, opt, vm.ip)

(* The canonical machine a state of the loop stands for is at the origin of  *)
(* its instruction, with the same variables and frames.                      *)
LEMMA Starts ==
    ASSUME NEW L, NEW V, VMInv(L, V), Matching(L), vm.outcome = "running"
    PROVE  \E m, q : Before(L, V, m, q)
<1>1. PICK m : m = Meaning
  OBVIOUS
<1>2. PICK q : q = opt.origin[vm.ip]
  OBVIOUS
<1>3. vm.ip \in DOMAIN L /\ vm.ip \in Nat
  BY Decoded
<1>4. q \in Nat /\ StandsFor(chunk, opt, vm.ip)
  BY <1>2, <1>3 DEF Matching, Faithful
<1>5. Means(m, opt.origin, vm, cache)
  BY <1>1, MeaningMeans
<1>6. /\ IsMachine(m) /\ m.ip = q /\ m.locals = vm.locals /\ m.ops = Contents(cache)
      /\ m.top = vm.top /\ m.outcome = "running"
      /\ m.calls = CallsFrom(opt.origin, vm.calls) /\ m.tries = TriesFrom(opt.origin, vm.tries)
      /\ m.heap = vm.heap /\ m.out = vm.out
  BY <1>2, <1>5 DEF Means, PlaceFrom
<1>7. DOMAIN m = SyncedFields
  BY <1>6, MachineFields
<1>8. LocalBase(m) = LocalBase(vm)
  <2>1. vm.calls \in FrameRecords
    BY DEF VMInv, MachineOK
  <2>2. PICK n \in Nat : n = Len(vm.calls)
    BY <2>1, LenProperties DEF FrameRecords
  <2>3. PICK c : c = m.calls
    OBVIOUS
  <2>4. PICK d \in FrameRecords : d = vm.calls
    BY <2>1
  <2>5. c = CallsFrom(opt.origin, d) /\ n = Len(d)
    BY <1>6, <2>2, <2>3, <2>4
  <2>6. /\ Len(c) = n /\ (c = <<>> <=> d = <<>>)
        /\ \A k \in 1 .. n : c[k].base = d[k].base
    <3>1. PICK org : org = opt.origin
      OBVIOUS
    <3>2. c = CallsFrom(org, d) /\ n = Len(d)
      BY <2>5, <3>1
    <3>3. Len(c) = n
      BY <3>2, MappedCalls
    <3>4. c = <<>> <=> d = <<>>
      BY <3>2, MappedCalls
    <3>5. ASSUME NEW k \in 1 .. n PROVE c[k].base = d[k].base
      BY <3>2, OneCallsMapped
    <3> QED
      BY <3>3, <3>4, <3>5
  <2>7. d # <<>> => n \in 1 .. n
    BY <2>5, EmptySeq DEF FrameRecords
  <2> QED
    BY <2>3, <2>4, <2>5, <2>6, <2>7 DEF LocalBase
<1>9. LocalBase(vm) \in Nat
  BY BaseType
<1>10. m = At3(m, q, vm.locals, Contents(cache))
  <2>1. IsMachine(At3(m, q, vm.locals, Contents(cache)))
    BY <1>6, MovedIs
  <2>2. PICK n : n = At3(m, q, vm.locals, Contents(cache))
    OBVIOUS
  <2>3. /\ n.ip = m.ip /\ n.locals = m.locals /\ n.ops = m.ops /\ n.top = m.top
        /\ n.calls = m.calls /\ n.tries = m.tries /\ n.heap = m.heap /\ n.out = m.out
        /\ n.outcome = m.outcome
    BY <1>6, <1>7, <2>2, MovedState
  <2>4. IsMachine(n)
    BY <2>1, <2>2
  <2>5. m = n
    BY <1>6, <2>3, <2>4, SameMachine
  <2> QED
    BY <2>2, <2>5
<1>11. Before(L, V, m, q)
  BY <1>1, <1>2, <1>3, <1>4, <1>6, <1>7, <1>8, <1>9, <1>10 DEF Before
<1> QED
  BY <1>11

(* The step is what the canonical instructions do.                           *)
LEMMA Arrives ==
    ASSUME opt' = opt, NEW m, m = Meaning, NEW s, NEW n \in 1 .. 20,
           NEW target, target = PlaceFrom(opt.origin, vm'.ip, vm'.outcome),
           Leads(m, s, n, target), Means(Ended(s), opt.origin, vm', cache')
    PROVE  SameUpTo(Meaning', RunTo(Meaning, Meaning'.ip))
<1>1. PICK m1 : m1 = Meaning'
  OBVIOUS
<1>2. Means(m1, opt.origin, vm', cache')
  BY <1>1, MeaningMeansNext
<1>3. m1 = Ended(s)
  BY <1>2, SameMeaning
<1>4. m1.ip = target
  BY <1>2 DEF Means
<1>5. s.outcome # "running" \/ s.ip = target
  BY <1>3, <1>4 DEF Ended
<1>6. RunTo(m, target) = m1
  BY <1>3, <1>5, RunsThere
<1> QED
  BY <1>1, <1>4, <1>6 DEF SameUpTo

(* One canonical instruction is enough.                                      *)
LEMMA ArrivesAtOnce ==
    ASSUME opt' = opt, NEW m, m = Meaning, m.outcome = "running",
           NEW s, s = Canonical(Reference, m), Means(Ended(s), opt.origin, vm', cache')
    PROVE  SameUpTo(Meaning', RunTo(Meaning, Meaning'.ip))
<1>1. PICK target : target = PlaceFrom(opt.origin, vm'.ip, vm'.outcome)
  OBVIOUS
<1>2. Leads(m, m, 0, target)
  BY LeadsNowhere
<1>3. Leads(m, s, 0 + 1, target)
  BY <1>2, LeadsOn
<1>4. Leads(m, s, 1, target)
  BY <1>3
<1>5. 1 \in 1 .. 20
  OBVIOUS
<1> QED
  BY <1>1, <1>4, <1>5, Arrives

(* What a machine that only moved on means.                                  *)
LEMMA Settles ==
    ASSUME NEW L, NEW V, NEW m, NEW q, Before(L, V, m, q), opt' = opt,
           vm'.outcome = "running", vm'.calls = vm.calls, vm'.tries = vm.tries,
           vm'.top = vm.top, vm'.heap = vm.heap, vm'.out = vm.out,
           NEW s, s = At3(m, opt.origin[vm'.ip], vm'.locals, Contents(cache'))
    PROVE  Ended(s) = s /\ Means(s, opt.origin, vm', cache')
<1>1. /\ DOMAIN s = SyncedFields /\ s.ip = opt.origin[vm'.ip] /\ s.locals = vm'.locals
      /\ s.ops = Contents(cache')
      /\ s.top = m.top /\ s.calls = m.calls /\ s.tries = m.tries /\ s.heap = m.heap
      /\ s.out = m.out /\ s.outcome = m.outcome
  BY MovedState DEF Before
<1>2. IsMachine(s)
  BY MovedIs DEF Before
<1>3. s.outcome = "running"
  BY <1>1 DEF Before
<1> QED
  BY <1>1, <1>2, <1>3 DEF Before, Means, Ended, PlaceFrom

(* What the operations of the loop do to the stack a cache stands for.       *)
LEMMA CacheIs ==
    ASSUME NEW V, NEW c, IsCache(c, V)
    PROVE  \E mem, regs : /\ mem \in Seq(V) /\ regs \in Seq(V) /\ Len(regs) <= 2
                          /\ c = <<mem, regs>> /\ Contents(c) = mem \o regs
                          /\ mem \o regs \in Seq(V) /\ Len(mem \o regs) = Height(c)
                          /\ Len(mem) \in Nat /\ Len(regs) \in Nat
                          /\ Height(c) = Len(mem) + Len(regs)
<1>1. c[1] \in Seq(V) /\ c[2] \in Seq(V) /\ c = <<c[1], c[2]>> /\ Len(c[2]) <= 2
  BY CacheTypes DEF IsCache
<1>2. PICK mem \in Seq(V) : mem = c[1]
  BY <1>1
<1>3. PICK regs \in Seq(V) : regs = c[2]
  BY <1>1
<1>4. /\ mem \o regs \in Seq(V) /\ Len(mem \o regs) = Len(mem) + Len(regs)
      /\ Len(mem) \in Nat /\ Len(regs) \in Nat
  BY JoinedSeqs
<1>5. Contents(c) = mem \o regs /\ Height(c) = Len(mem) + Len(regs)
  BY <1>2, <1>3 DEF Contents, Height
<1> QED
  BY <1>1, <1>2, <1>3, <1>4, <1>5

LEMMA ContentsPush ==
    ASSUME NEW V, NEW c, IsCache(c, V), NEW v \in V
    PROVE  Contents(PUSH_TOS(c, v)) = Append(Contents(c), v)
<1>1. PICK mem, regs : /\ mem \in Seq(V) /\ regs \in Seq(V) /\ Len(regs) <= 2
                       /\ c = <<mem, regs>> /\ Contents(c) = mem \o regs
  BY CacheIs
<1>2. Contents(PUSH_TOS(<<mem, regs>>, v)) = Append(mem \o regs, v)
  BY <1>1, PushIsPush
<1> QED
  BY <1>1, <1>2

LEMMA ContentsPeek ==
    ASSUME NEW V, NEW c, IsCache(c, V), NEW h \in Nat, Height(c) = h, h >= 1
    PROVE  PEEK_TOS(c) = Peek(Contents(c))
<1>1. PICK mem, regs : /\ mem \in Seq(V) /\ regs \in Seq(V) /\ Len(regs) <= 2
                       /\ c = <<mem, regs>> /\ Contents(c) = mem \o regs
                       /\ Len(mem \o regs) = Height(c) /\ mem \o regs \in Seq(V)
  BY CacheIs
<1>2. mem \o regs # <<>>
  BY <1>1, EmptySeq
<1>3. PEEK_TOS(<<mem, regs>>) = (mem \o regs)[Len(mem \o regs)]
  BY <1>1, <1>2, PeekIsTop
<1> QED
  BY <1>1, <1>3 DEF Peek

LEMMA ContentsDiscard ==
    ASSUME NEW V, NEW c, IsCache(c, V), NEW h \in Nat, Height(c) = h, h >= 1
    PROVE  Contents(DISCARD_TOS(c)) = Drop(Contents(c), 1)
<1>1. PICK mem, regs : /\ mem \in Seq(V) /\ regs \in Seq(V) /\ Len(regs) <= 2
                       /\ c = <<mem, regs>> /\ Contents(c) = mem \o regs
                       /\ Len(mem \o regs) = Height(c) /\ mem \o regs \in Seq(V)
  BY CacheIs
<1>2. mem \o regs # <<>>
  BY <1>1, EmptySeq
<1>3. Contents(DISCARD_TOS(<<mem, regs>>)) = SubSeq(mem \o regs, 1, Len(mem \o regs) - 1)
  BY <1>1, <1>2, DiscardIsPop
<1> QED
  BY <1>1, <1>3 DEF Drop

LEMMA ContentsFlush ==
    ASSUME NEW V, NEW c, IsCache(c, V)
    PROVE  Contents(FLUSH_TOS(c)) = Contents(c)
<1>1. PICK mem, regs : /\ mem \in Seq(V) /\ regs \in Seq(V)
                       /\ c = <<mem, regs>> /\ Contents(c) = mem \o regs
                       /\ mem \o regs \in Seq(V)
  BY CacheIs
<1>2. PICK all \in Seq(V) : all = mem \o regs
  BY <1>1
<1>3. FLUSH_TOS(c) = <<all, <<>>>>
  BY <1>1, <1>2 DEF FLUSH_TOS
<1>4. all \o <<>> = all
  BY <1>1, <1>2, ConcatEmptySeq
<1>5. PICK none : none = <<>>
  OBVIOUS
<1>6. none \in Seq(V) /\ Len(none) = 0
  BY <1>5
<1>7. Contents(<<all, none>>) = all \o none
  BY DEF Contents
<1> QED
  BY <1>1, <1>2, <1>3, <1>4, <1>5, <1>7

LEMMA ContentsPushTwo ==
    ASSUME NEW V, NEW c, IsCache(c, V), NEW a \in V, NEW b \in V
    PROVE  Contents(PUSH_TWO(c, a, b)) = Append(Append(Contents(c), a), b)
<1>1. PICK mem, regs : /\ mem \in Seq(V) /\ regs \in Seq(V)
                       /\ c = <<mem, regs>> /\ Contents(c) = mem \o regs
                       /\ mem \o regs \in Seq(V)
  BY CacheIs
<1>2. PICK all \in Seq(V) : all = mem \o regs
  BY <1>1
<1>3. Contents(PUSH_TWO(c, a, b)) = all \o <<a, b>>
  BY <1>1, <1>2 DEF PUSH_TWO, Contents
<1>4. <<a>> \in Seq(V) /\ Append(<<a>>, b) = <<a, b>>
  <2>1. <<a>> \in Seq(V)
    OBVIOUS
  <2>2. Append(<<a>>, b) = <<a>> \o <<b>>
    BY <2>1, AppendIsConcat
  <2>3. <<a, b>> = <<a>> \o <<b>>
    BY TwoJoined
  <2> QED
    BY <2>1, <2>2, <2>3
<1>5. all \o Append(<<a>>, b) = Append(all \o <<a>>, b)
  BY <1>4, ConcatAppend
<1>6. Append(all, a) = all \o <<a>>
  BY AppendIsConcat
<1> QED
  BY <1>1, <1>2, <1>3, <1>4, <1>5, <1>6

LEMMA ContentsTwo ==
    ASSUME NEW V, NEW c, IsCache(c, V), NEW h \in Nat, Height(c) = h, h >= 2
    PROVE  TopTwo(c)[1] = Args(Contents(c), 2)[1] /\ TopTwo(c)[2] = Peek(Contents(c))
<1>1. PICK mem, regs : /\ mem \in Seq(V) /\ regs \in Seq(V) /\ Len(regs) <= 2
                       /\ c = <<mem, regs>> /\ Contents(c) = mem \o regs
                       /\ Len(mem \o regs) = Height(c) /\ mem \o regs \in Seq(V)
  BY CacheIs
<1>2. PICK all \in Seq(V) : all = mem \o regs
  BY <1>1
<1>3. Len(all) = h
  BY <1>1, <1>2
<1>4. /\ TopTwo(<<mem, regs>>)[1] = (mem \o regs)[h - 1]
      /\ TopTwo(<<mem, regs>>)[2] = (mem \o regs)[h]
  BY <1>1, <1>2, <1>3, OperandsAreTopTwo
<1>5. TopTwo(c)[2] = Peek(Contents(c))
  BY <1>1, <1>2, <1>3, <1>4 DEF Peek
<1>6. Args(all, 2)[1] = all[h - 1]
  <2>1. h - 2 + 1 = h - 1 /\ h - 1 \in 1 .. h /\ 1 \in 1 .. h - (h - 1) + 1
        /\ (h - 1) + 1 - 1 = h - 1 /\ h - 1 \in Nat
    OBVIOUS
  <2>2. Args(all, 2) = SubSeq(all, h - 1, h)
    BY <1>3, <2>1 DEF Args
  <2>3. \A i \in h - 1 .. h : all[i] \in V
    BY <1>3, ElementOfSeq
  <2>4. PICK k \in Nat : k = h - 1
    BY <2>1
  <2>5. SubSeq(all, k, h)[1] = all[k + 1 - 1]
    BY <1>3, <2>1, <2>3, <2>4, SubSeqProperties
  <2> QED
    BY <2>1, <2>2, <2>4, <2>5
<1> QED
  BY <1>1, <1>2, <1>4, <1>5, <1>6

LEMMA ContentsPopTwo ==
    ASSUME NEW V, NEW c, IsCache(c, V), NEW h \in Nat, Height(c) = h, h >= 2
    PROVE  Contents(POP_TWO_TOS(c)) = Drop(Contents(c), 2)
<1>1. PICK mem, regs : /\ mem \in Seq(V) /\ regs \in Seq(V) /\ Len(regs) <= 2
                       /\ c = <<mem, regs>> /\ Contents(c) = mem \o regs
                       /\ Len(mem \o regs) = Height(c) /\ mem \o regs \in Seq(V)
                       /\ Len(mem) \in Nat /\ Len(regs) \in Nat
                       /\ Height(c) = Len(mem) + Len(regs)
  BY CacheIs
<1>2. PICK a \in Nat : a = Len(mem)
  BY <1>1
<1>3. PICK z \in Nat : z = Len(regs)
  BY <1>1
<1>4. h = a + z /\ z <= 2 /\ h - 2 = a - (2 - z) /\ h - 2 \in 0 .. a /\ h - 2 \in 0 .. a + z
  BY <1>1, <1>2, <1>3
<1>5. PICK n \in Nat : n = h - 2
  BY <1>4
<1>6. POP_TWO_TOS(c) = <<SubSeq(mem, 1, n), <<>>>>
  BY <1>1, <1>2, <1>3, <1>4, <1>5 DEF POP_TWO_TOS
<1>7. SubSeq(mem \o regs, 1, n) = SubSeq(mem, 1, n)
  BY <1>1, <1>2, <1>3, <1>4, <1>5, PrefixOfConcat
<1>8. PICK p : p = SubSeq(mem, 1, n)
  OBVIOUS
<1>9. p \in Seq(V)
  BY <1>1, <1>2, <1>4, <1>5, <1>8, Prefix
<1>10. p \o <<>> = p
  BY <1>9, ConcatEmptySeq
<1>11. Contents(POP_TWO_TOS(c)) = p
  BY <1>6, <1>8, <1>10 DEF Contents
<1>12. Drop(mem \o regs, 2) = SubSeq(mem \o regs, 1, n)
  BY <1>1, <1>5 DEF Drop
<1> QED
  BY <1>1, <1>7, <1>8, <1>11, <1>12

LEMMA ContentsBinary ==
    ASSUME NEW V, NEW c, IsCache(c, V), NEW h \in Nat, Height(c) = h, h >= 2, NEW v
    PROVE  Contents(BINARY_OP(c, v)) = Append(Drop(Contents(c), 2), v)
<1>1. PICK c2 : c2 = POP_TWO_TOS(c)
  OBVIOUS
<1>2. IsCache(c2, V) /\ Contents(c2) = Drop(Contents(c), 2)
  BY <1>1, ContentsPopTwo, PopTwoStacks DEF Stacked
<1>3. PICK p : p = c2[1]
  OBVIOUS
<1>4. p \in Seq(V) /\ c2[2] = <<>>
  BY <1>1, <1>2, <1>3, CacheTypes DEF POP_TWO_TOS
<1>5. Contents(c2) = p
  BY <1>3, <1>4, ConcatEmptySeq DEF Contents
<1>6. Contents(BINARY_OP(c, v)) = p \o <<v>>
  BY <1>1, <1>3 DEF BINARY_OP, Contents
<1>7. Append(p, v) = p \o <<v>>
  <2>1. p \in Seq(V \cup {v}) /\ v \in V \cup {v}
    BY <1>4, LargerSeq
  <2> QED
    BY <2>1, AppendIsConcat
<1> QED
  BY <1>2, <1>5, <1>6, <1>7

LEMMA ContentsTaken ==
    ASSUME NEW V, NEW c, IsCache(c, V), NEW h \in Nat, Height(c) = h, NEW n \in 0 .. h
    PROVE  /\ Contents(TAKE_ARGS(c, n)) = Drop(Contents(c), n)
           /\ Arguments(c, n) = Args(Contents(c), n)
<1>0. PICK mem, regs : /\ mem \in Seq(V) /\ regs \in Seq(V) /\ Len(regs) <= 2
                       /\ c = <<mem, regs>> /\ Contents(c) = mem \o regs
                       /\ Len(mem \o regs) = Height(c) /\ mem \o regs \in Seq(V)
                       /\ Len(mem) \in Nat /\ Len(regs) \in Nat
                       /\ Height(c) = Len(mem) + Len(regs)
  BY CacheIs
<1>1. PICK all \in Seq(V) : all = mem \o regs
  BY <1>0
<1>2. PICK x \in Nat : x = Len(mem)
  BY <1>0
<1>3. PICK z \in Nat : z = Len(regs)
  BY <1>0
<1>4. /\ h = x + z /\ Len(all) = h
  BY <1>0, <1>1, <1>2, <1>3
<1>20. Contents(TAKE_ARGS(c, n)) = SubSeq(all, 1, h - n)
  <2>1. mem \in Seq(V) /\ regs \in Seq(V) /\ Len(regs) <= 2 /\ n \in 0 .. Len(mem \o regs)
    BY <1>0
  <2>2. Contents(TAKE_ARGS(<<mem, regs>>, n)) = SubSeq(mem \o regs, 1, Len(mem \o regs) - n)
    BY ONLY <2>1, ArgumentsLeaveTheStack
  <2> QED
    BY <1>0, <1>1, <1>4, <2>2
<1>21. ASSUME NEW k \in 1 .. n PROVE Arguments(c, n)[k] = all[h - n + k]
  <2>1. /\ \A i \in 1 .. x : all[i] = mem[i]
        /\ \A i \in x + 1 .. x + z : all[i] = regs[i - x]
    BY <1>0, <1>1, <1>2, <1>3, JoinedSeqs
  <2>2. Arguments(c, n)[k] = IF n - k < z THEN regs[z - (n - k)] ELSE mem[x - (n - k - z)]
    BY <1>0, <1>2, <1>3 DEF Arguments
  <2>3. CASE n - k < z
    <3>1. h - n + k \in x + 1 .. x + z /\ (h - n + k) - x = z - (n - k)
      BY <1>4, <2>3
    <3> QED
      BY <2>1, <2>2, <2>3, <3>1
  <2>4. CASE ~(n - k < z)
    <3>1. h - n + k \in 1 .. x /\ x - (n - k - z) = h - n + k
      BY <1>4, <2>4
    <3> QED
      BY <2>1, <2>2, <2>4, <3>1
  <2> QED
    BY <2>3, <2>4
<1>5. Contents(TAKE_ARGS(c, n)) = Drop(Contents(c), n)
  BY <1>0, <1>1, <1>4, <1>20 DEF Drop
<1>6. PICK a : a = Arguments(c, n)
  OBVIOUS
<1>7. a \in Seq(V) /\ Len(a) = n
  BY <1>6, TakeArgsStacks
<1>8. \A k \in 1 .. n : a[k] = all[h - n + k]
  BY <1>6, <1>21
<1>9. PICK b : b = Args(all, n)
  OBVIOUS
<1>10. PICK l \in Nat : l = h - n + 1
  OBVIOUS
<1>11. l \in 1 .. h + 1 /\ h - l + 1 = n
  BY <1>10
<1>12. b = SubSeq(all, l, h)
  BY <1>4, <1>9, <1>10 DEF Args
<1>13. \A i \in l .. h : all[i] \in V
  BY <1>4, <1>11, ElementOfSeq
<1>14. b \in Seq(V) /\ Len(b) = n
  BY <1>4, <1>9, OperandsHeld
<1>15. \A k \in 1 .. n : b[k] = all[l + k - 1]
  <2>1. CASE n = 0
    BY <2>1
  <2>2. CASE n # 0
    <3>1. l \in 1 .. h /\ h - l + 1 = n
      BY <1>11, <2>2
    <3> QED
      BY <1>4, <1>12, <1>13, <3>1, SubSeqProperties
  <2> QED
    BY <2>1, <2>2
<1>16. \A k \in 1 .. n : a[k] = b[k]
  <2>1. \A k \in 1 .. n : l + k - 1 = h - n + k
    BY <1>10
  <2> QED
    BY <1>8, <1>15, <2>1
<1>17. a = b
  BY <1>7, <1>14, <1>16, SeqEqual
<1> QED
  BY <1>0, <1>1, <1>5, <1>6, <1>9, <1>17

LEMMA ContentsReturn ==
    ASSUME NEW V, NEW c, IsCache(c, V), NEW h \in Nat, Height(c) = h, h >= 1,
           NEW d \in 0 .. Len(c[1])
    PROVE  Contents(RETURN_TOS(c, d)) = Append(SubSeq(Contents(c), 1, d), Peek(Contents(c)))
<1>1. PICK mem, regs : /\ mem \in Seq(V) /\ regs \in Seq(V) /\ Len(regs) <= 2
                       /\ c = <<mem, regs>> /\ Contents(c) = mem \o regs
                       /\ Len(mem) \in Nat /\ Len(regs) \in Nat
  BY CacheIs
<1>2. PEEK_TOS(c) = Peek(Contents(c))
  BY ContentsPeek
<1>3. PICK v : v = PEEK_TOS(c)
  OBVIOUS
<1>4. v \in V
  BY <1>3, PeekIn
<1>5. d \in 0 .. Len(mem)
  BY <1>1
<1>6. SubSeq(mem \o regs, 1, d) = SubSeq(mem, 1, d)
  BY <1>1, <1>5, PrefixOfConcat
<1>7. PICK p : p = SubSeq(mem, 1, d)
  OBVIOUS
<1>8. p \in Seq(V)
  BY <1>1, <1>5, <1>7, Prefix
<1>9. RETURN_TOS(c, d) = <<p, <<v>>>>
  BY <1>1, <1>3, <1>7 DEF RETURN_TOS
<1>10. Contents(RETURN_TOS(c, d)) = p \o <<v>>
  BY <1>9 DEF Contents
<1>11. Append(p, v) = p \o <<v>>
  BY <1>4, <1>8, AppendIsConcat
<1> QED
  BY <1>1, <1>2, <1>3, <1>6, <1>7, <1>10, <1>11

-----------------------------------------------------------------------------
(* Instructions that move on in the code, and the jumps.                     *)

AsCanonical == SameUpTo(Meaning', RunTo(Meaning, Meaning'.ip))

(* A step that moves on to p with other variables and another stack.         *)
Flat(p, w, c) ==
    /\ vm'.ip = p /\ vm'.locals = w /\ cache' = c /\ vm'.outcome = "running"
    /\ vm'.calls = vm.calls /\ vm'.tries = vm.tries /\ vm'.top = vm.top
    /\ vm'.heap = vm.heap /\ vm'.out = vm.out /\ opt' = opt

LEMMA GoIsFlat ==
    ASSUME NEW L, NEW V, VMInv(L, V), vm.outcome = "running", opt' = opt, NEW len, NEW c,
           Go(vm, len, c)
    PROVE  Flat(vm.ip + len, vm.locals, c)
<1>1. DOMAIN vm = VMFields
  BY DEF VMInv, MachineOK
<1> QED
  BY <1>1 DEF Go, Flat, VMFields

LEMMA SlotIsFlat ==
    ASSUME NEW L, NEW V, VMInv(L, V), vm.outcome = "running", opt' = opt, NEW len, NEW c,
           NEW n, NEW v, Go(SetSlot(n, v), len, c)
    PROVE  Flat(vm.ip + len, WriteCells(vm.locals, LocalBase(vm) + n, <<v>>), c)
<1>1. DOMAIN vm = VMFields
  BY DEF VMInv, MachineOK
<1>2. PICK w : w = WriteCells(vm.locals, LocalBase(vm) + n, <<v>>)
  OBVIOUS
<1>3. SetSlot(n, v) = [vm EXCEPT !.locals = w]
  BY <1>2 DEF SetSlot
<1>4. vm' = [[vm EXCEPT !.locals = w] EXCEPT !.ip = vm.ip + len] /\ cache' = c
  BY <1>3 DEF Go
<1> QED
  BY <1>1, <1>2, <1>4 DEF Flat, VMFields

LEMMA StoreIsFlat ==
    ASSUME NEW L, NEW V, VMInv(L, V), FramesAbut, vm.outcome = "running", opt' = opt, NEW len,
           NEW c, NEW n \in Nat, n < FrameRunning, NEW v, Go(SetLocal(vm, n, v), len, c)
    PROVE  Flat(vm.ip + len, WriteCells(vm.locals, LocalBase(vm) + n, <<v>>), c)
<1>1. DOMAIN vm = VMFields /\ vm.calls \in FrameRecords /\ opt.topSize \in Nat
  BY DEF VMInv, MachineOK, Verified
<1>2. SetLocal(vm, n, v) = [vm EXCEPT !.locals = WriteCells(@, LocalBase(vm) + n, <<v>>)]
  BY <1>1, SlotSetInFrame
<1>3. SetLocal(vm, n, v) = SetSlot(n, v)
  BY <1>2 DEF SetSlot
<1> QED
  BY <1>3, SlotIsFlat

(* Where canonical instructions lead to such a state, the step is theirs.    *)
LEMMA Lands ==
    ASSUME NEW L, NEW V, NEW m, NEW q, Before(L, V, m, q), NEW p, NEW w, NEW c, Flat(p, w, c),
           NEW target, target = opt.origin[p],
           NEW s, s = At3(m, target, w, Contents(c)), NEW n \in 1 .. 20, Leads(m, s, n, target)
    PROVE  AsCanonical
<1>1. s = At3(m, opt.origin[vm'.ip], vm'.locals, Contents(cache'))
  BY DEF Flat
<1>2. Ended(s) = s /\ Means(s, opt.origin, vm', cache')
  BY <1>1, Settles DEF Flat
<1>3. target = PlaceFrom(opt.origin, vm'.ip, vm'.outcome)
  BY DEF PlaceFrom, Flat
<1>4. m = Meaning /\ opt' = opt
  BY DEF Before, Flat
<1>5. Means(Ended(s), opt.origin, vm', cache')
  BY <1>2
<1> QED
  BY <1>3, <1>4, <1>5, Arrives DEF AsCanonical

LEMMA LandsAtOnce ==
    ASSUME NEW L, NEW V, NEW m, NEW q, Before(L, V, m, q), NEW p, NEW w, NEW c, Flat(p, w, c),
           Canonical(Reference, m) = At3(m, opt.origin[p], w, Contents(c))
    PROVE  AsCanonical
<1>1. PICK s : s = Canonical(Reference, m)
  OBVIOUS
<1>2. s = At3(m, opt.origin[vm'.ip], vm'.locals, Contents(cache'))
  BY <1>1 DEF Flat
<1>3. Ended(s) = s /\ Means(s, opt.origin, vm', cache')
  BY <1>2, Settles DEF Flat
<1>4. m = Meaning /\ m.outcome = "running" /\ opt' = opt
  BY DEF Before, Flat
<1>5. Means(Ended(s), opt.origin, vm', cache')
  BY <1>3
<1> QED
  BY <1>1, <1>4, <1>5, ArrivesAtOnce DEF AsCanonical

(* The machine before a step, its parts named.                               *)
Here(L, V, m, q, w, ops) ==
    /\ Before(L, V, m, q) /\ m = At3(m, q, w, ops) /\ w = vm.locals /\ ops = Contents(cache)
    /\ DOMAIN m = SyncedFields /\ q \in Nat /\ vm.ip \in Nat /\ vm.ip \in DOMAIN L
    /\ LocalBase(m) = LocalBase(vm) /\ LocalBase(m) \in Nat /\ m.top = vm.top
    /\ ops \in Seq(V) /\ Len(ops) = Height(cache)
    /\ Reference.code = chunk.code /\ q = opt.origin[vm.ip]

(* Where the canonical run of the next step starts.                          *)
LEMMA StartsHere ==
    ASSUME NEW L, NEW V, VMInv(L, V), Matching(L), vm.outcome = "running"
    PROVE  \E m, q, w, ops : Here(L, V, m, q, w, ops)
<1>1. PICK m, q : Before(L, V, m, q)
  BY Starts
<1>2. PICK w, ops : w = vm.locals /\ ops = Contents(cache)
  OBVIOUS
<1>3. m = At3(m, q, w, ops)
  BY <1>1, <1>2 DEF Before
<1>4. ops \in Seq(V) /\ Len(ops) = Height(cache)
  BY <1>2, FlushStacks DEF VMInv, MachineOK
<1>5. Reference.code = chunk.code
  BY ReferenceIs
<1>6. Here(L, V, m, q, w, ops)
  BY <1>1, <1>2, <1>3, <1>4, <1>5 DEF Here, Before
<1> QED
  BY <1>6

LEMMA StepHere ==
    ASSUME NEW L, NEW V, NEW m, NEW q, NEW w, NEW ops, Here(L, V, m, q, w, ops),
           NEW p, NEW w1, NEW c, Flat(p, w1, c), NEW q1, q1 = opt.origin[p],
           NEW ops1, ops1 = Contents(c),
           Canonical(Reference, At3(m, q, w, ops)) = At3(m, q1, w1, ops1)
    PROVE  AsCanonical
<1>1. Before(L, V, m, q)
  BY DEF Here
<1>2. Canonical(Reference, m) = At3(m, opt.origin[p], w1, Contents(c))
  BY DEF Here
<1> QED
  BY <1>1, <1>2, LandsAtOnce

(* The stack with any value put on it.                                       *)
LEMMA PushedOnto ==
    ASSUME NEW L, NEW V, VMInv(L, V), NEW v
    PROVE  Contents(PUSH_TOS(cache, v)) = Append(Contents(cache), v)
<1>1. IsCache(cache, V)
  BY DEF VMInv, MachineOK
<1>2. PICK W : W = V \cup {v}
  OBVIOUS
<1>3. Seq(V) \subseteq Seq(W) /\ v \in W
  BY <1>2, LargerSeq
<1>4. IsCache(cache, W)
  BY <1>1, <1>3 DEF IsCache
<1> QED
  BY <1>3, <1>4, ContentsPush

LEMMA PushIntCanonical ==
    ASSUME NEW L, NEW V, VMInv(L, V), Matching(L), PushInt
    PROVE  AsCanonical
<1>1. At(Op.PUSH_INT) /\ Plain /\ opt' = opt
  BY DEF PushInt, Plain
<1>2. Straight(Op.PUSH_INT, 0, 1, 9)
  BY StraightTable
<1>3. vm.outcome = "running" /\ Byte(opt.code, vm.ip) = Op.PUSH_INT
  BY <1>1, <1>2, Recognised DEF Straight
<1>4. PICK m, q, w, ops : Here(L, V, m, q, w, ops)
  BY <1>3, StartsHere
<1>5. PICK v : v = Number(Int64(code, vm.ip + 1))
  OBVIOUS
<1>6. PICK c : c = PUSH_TOS(cache, v)
  OBVIOUS
<1>7. Flat(vm.ip + 9, w, c)
  BY <1>1, <1>3, <1>4, <1>5, <1>6, GoIsFlat DEF PushInt, Here
<1>8. Int64(code, vm.ip + 1) = Int64(opt.code, vm.ip + 1)
  <2>1. \A k \in 1 .. 8 : Byte(code, vm.ip + k) = Byte(opt.code, vm.ip + k)
    BY <1>2, <1>3, Operands DEF Straight
  <2>2. vm.ip + 1 + 1 = vm.ip + 2 /\ vm.ip + 1 + 7 = vm.ip + 8
    BY <1>4 DEF Here
  <2> QED
    BY <2>1, <2>2 DEF Int64, UInt16
<1>9. /\ Byte(chunk.code, q) = Op.PUSH_INT /\ v = Number(Int64(chunk.code, q + 1))
      /\ opt.origin[vm.ip + 9] = q + 9
  BY <1>3, <1>4, <1>5, <1>8 DEF Here, Before, StandsFor
<1>10. Contents(c) = Append(ops, v)
  BY <1>4, <1>6, PushedOnto DEF Here
<1>11. Canonical(Reference, At3(m, q, w, ops)) = At3(m, q + 9, w, Append(ops, v))
  BY <1>4, <1>9, PushesNumber DEF Here
<1> QED
  BY <1>4, <1>7, <1>9, <1>10, <1>11, StepHere

(* More canonical instructions in such a state.                              *)
LEMMA PushesBool ==
    ASSUME NEW ch, NEW m, DOMAIN m = SyncedFields, NEW ip, NEW locals, NEW ops,
           Byte(ch.code, ip) = Op.PUSH_BOOL, NEW v, v = Bool(Byte(ch.code, ip + 1) # 0)
    PROVE  Canonical(ch, At3(m, ip, locals, ops)) = At3(m, ip + 2, locals, Append(ops, v))
<1>1. PICK s : s = At3(m, ip, locals, ops)
  OBVIOUS
<1>2. s.ip = ip /\ s.ops = ops
  BY <1>1, MovedState
<1>3. ExecAt(ch, s, ip, Op.PUSH_BOOL) = Advance(s, 2, Append(s.ops, Bool(Byte(ch.code, ip + 1) # 0)))
  BY OpNumbers DEF ExecAt, Binaries
<1>4. Canonical(ch, s) = Advance(s, 2, Append(ops, v))
  BY <1>2, <1>3 DEF Canonical
<1> QED
  BY <1>1, <1>4, MovedOn

LEMMA DropsTop ==
    ASSUME NEW ch, NEW m, DOMAIN m = SyncedFields, NEW ip, NEW locals, NEW ops,
           Byte(ch.code, ip) = Op.POP
    PROVE  Canonical(ch, At3(m, ip, locals, ops)) = At3(m, ip + 1, locals, Drop(ops, 1))
<1>1. PICK s : s = At3(m, ip, locals, ops)
  OBVIOUS
<1>2. s.ip = ip /\ s.ops = ops
  BY <1>1, MovedState
<1>3. ExecAt(ch, s, ip, Op.POP) = Advance(s, 1, Drop(s.ops, 1))
  BY OpNumbers DEF ExecAt, Binaries
<1>4. Canonical(ch, s) = Advance(s, 1, Drop(ops, 1))
  BY <1>2, <1>3 DEF Canonical
<1> QED
  BY <1>1, <1>4, MovedOn

LEMMA Copies ==
    ASSUME NEW ch, NEW m, DOMAIN m = SyncedFields, NEW ip, NEW locals, NEW ops,
           Byte(ch.code, ip) = Op.DUP, NEW v, v = Peek(ops)
    PROVE  Canonical(ch, At3(m, ip, locals, ops)) = At3(m, ip + 1, locals, Append(ops, v))
<1>1. PICK s : s = At3(m, ip, locals, ops)
  OBVIOUS
<1>2. s.ip = ip /\ s.ops = ops
  BY <1>1, MovedState
<1>3. ExecAt(ch, s, ip, Op.DUP) = Advance(s, 1, Append(s.ops, Peek(s.ops)))
  BY OpNumbers DEF ExecAt, Binaries
<1>4. Canonical(ch, s) = Advance(s, 1, Append(ops, v))
  BY <1>2, <1>3 DEF Canonical
<1> QED
  BY <1>1, <1>4, MovedOn

LEMMA CombinesTop ==
    ASSUME NEW ch, NEW m, DOMAIN m = SyncedFields, NEW ip, NEW locals, NEW ops,
           NEW o \in Binaries, Byte(ch.code, ip) = o,
           NEW v, v = Apply(o, Args(ops, 2)[1], Peek(ops))
    PROVE  Canonical(ch, At3(m, ip, locals, ops)) = At3(m, ip + 1, locals, Append(Drop(ops, 2), v))
<1>1. PICK s : s = At3(m, ip, locals, ops)
  OBVIOUS
<1>2. s.ip = ip /\ s.ops = ops
  BY <1>1, MovedState
<1>3. ExecAt(ch, s, ip, o) = Advance(s, 1, Append(Drop(s.ops, 2), Apply(o, Args(s.ops, 2)[1], Peek(s.ops))))
  BY ExecBinary
<1>4. Canonical(ch, s) = Advance(s, 1, Append(Drop(ops, 2), v))
  BY <1>2, <1>3 DEF Canonical
<1> QED
  BY <1>1, <1>4, MovedOn

LEMMA JumpsTo ==
    ASSUME NEW ch, NEW m, DOMAIN m = SyncedFields, NEW ip, NEW locals, NEW ops,
           Byte(ch.code, ip) = Op.JUMP, NEW q, q = ip + 3 + Int16(ch.code, ip + 1)
    PROVE  Canonical(ch, At3(m, ip, locals, ops)) = At3(m, q, locals, ops)
<1>1. PICK s : s = At3(m, ip, locals, ops)
  OBVIOUS
<1>2. s.ip = ip
  BY <1>1, MovedState
<1>3. ExecAt(ch, s, ip, Op.JUMP) = [s EXCEPT !.ip = ip + 3 + Int16(ch.code, ip + 1)]
  BY OpNumbers DEF ExecAt, Binaries
<1>4. Canonical(ch, s) = [s EXCEPT !.ip = q]
  BY <1>2, <1>3 DEF Canonical
<1>5. [s EXCEPT !.ip = q] = At3(m, q, locals, ops)
  BY <1>1 DEF At3, SyncedFields, VMFields
<1> QED
  BY <1>1, <1>4, <1>5

LEMMA BranchesOff ==
    ASSUME NEW ch, NEW m, DOMAIN m = SyncedFields, NEW ip, NEW locals, NEW ops,
           Byte(ch.code, ip) = Op.JUMP_IF_FALSE,
           NEW q, q = ip + 3 + (IF AsBool(Peek(ops)) THEN 0 ELSE Int16(ch.code, ip + 1)),
           NEW ops1, ops1 = Drop(ops, 1)
    PROVE  Canonical(ch, At3(m, ip, locals, ops)) = At3(m, q, locals, ops1)
<1>1. PICK s : s = At3(m, ip, locals, ops)
  OBVIOUS
<1>2. s.ip = ip /\ s.ops = ops /\ DOMAIN s = SyncedFields
  BY <1>1, MovedState
<1>3. PICK to : to = ip + 3 + (IF AsBool(Peek(s.ops)) THEN 0 ELSE Int16(ch.code, ip + 1))
  OBVIOUS
<1>4. Canonical(ch, s) = [s EXCEPT !.ip = q, !.ops = ops1]
  <2>1. ExecAt(ch, s, ip, Op.JUMP_IF_FALSE) = [s EXCEPT !.ip = to, !.ops = Drop(s.ops, 1)]
    BY <1>2, <1>3, OpNumbers DEF ExecAt, Binaries, SyncedFields, VMFields
  <2> QED
    BY <1>2, <1>3, <2>1 DEF Canonical
<1>5. [s EXCEPT !.ip = q, !.ops = ops1] = At3(m, q, locals, ops1)
  BY <1>1 DEF At3, SyncedFields, VMFields
<1> QED
  BY <1>1, <1>4, <1>5

LEMMA BranchesThree ==
    ASSUME NEW ch, NEW m, DOMAIN m = SyncedFields, NEW ip, NEW locals, NEW ops,
           Byte(ch.code, ip) = Op.BRANCH_3, NEW n \in Int, n = AsInt(Peek(ops)),
           NEW arm, arm = (IF n < 0 THEN 1 ELSE IF n = 0 THEN 3 ELSE 5),
           NEW q, q = ip + arm + 2 + Int16(ch.code, ip + arm),
           NEW ops1, ops1 = Drop(ops, 1)
    PROVE  Canonical(ch, At3(m, ip, locals, ops)) = At3(m, q, locals, ops1)
<1>1. PICK s : s = At3(m, ip, locals, ops)
  OBVIOUS
<1>2. s.ip = ip /\ s.ops = ops /\ DOMAIN s = SyncedFields
  BY <1>1, MovedState
<1>3. ExecAt(ch, s, ip, Op.BRANCH_3) = ExecBranch3(ch.code, s, AsInt(Peek(s.ops)))
  BY OpNumbers DEF ExecAt, Binaries
<1>4. Canonical(ch, s) = ExecBranch3(ch.code, s, n)
  BY <1>2, <1>3 DEF Canonical
<1>5. (CASE n < 0 -> 1 [] n = 0 -> 3 [] n > 0 -> 5) = arm
  <2>1. CASE n < 0
    BY <2>1
  <2>2. CASE n = 0
    BY <2>2
  <2>3. CASE n > 0
    BY <2>3
  <2> QED
    BY <2>1, <2>2, <2>3
<1>6. ExecBranch3(ch.code, s, n) = [s EXCEPT !.ip = q, !.ops = Drop(s.ops, 1)]
  BY <1>2, <1>5 DEF ExecBranch3, SyncedFields, VMFields
<1>7. [s EXCEPT !.ip = q, !.ops = ops1] = At3(m, q, locals, ops1)
  BY <1>1 DEF At3, SyncedFields, VMFields
<1> QED
  BY <1>1, <1>2, <1>4, <1>6, <1>7

-----------------------------------------------------------------------------
LEMMA PushBoolCanonical ==
    ASSUME NEW L, NEW V, VMInv(L, V), Matching(L), PushBool
    PROVE  AsCanonical
<1>1. At(Op.PUSH_BOOL) /\ Plain /\ opt' = opt
  BY DEF PushBool, Plain
<1>2. Straight(Op.PUSH_BOOL, 0, 1, 2)
  BY StraightTable
<1>3. vm.outcome = "running" /\ Byte(opt.code, vm.ip) = Op.PUSH_BOOL
  BY <1>1, <1>2, Recognised DEF Straight
<1>4. PICK m, q, w, ops : Here(L, V, m, q, w, ops)
  BY <1>3, StartsHere
<1>5. PICK v : v = Bool(Byte(code, vm.ip + 1) # 0)
  OBVIOUS
<1>6. PICK c : c = PUSH_TOS(cache, v)
  OBVIOUS
<1>7. Flat(vm.ip + 2, w, c)
  BY <1>1, <1>3, <1>4, <1>5, <1>6, GoIsFlat DEF PushBool, Here
<1>8. Byte(code, vm.ip + 1) = Byte(opt.code, vm.ip + 1)
  BY <1>2, <1>3, Operands DEF Straight
<1>9. /\ Byte(chunk.code, q) = Op.PUSH_BOOL /\ v = Bool(Byte(chunk.code, q + 1) # 0)
      /\ opt.origin[vm.ip + 2] = q + 2
  BY <1>3, <1>4, <1>5, <1>8 DEF Here, Before, StandsFor
<1>10. Contents(c) = Append(ops, v)
  BY <1>4, <1>6, PushedOnto DEF Here
<1>11. Canonical(Reference, At3(m, q, w, ops)) = At3(m, q + 2, w, Append(ops, v))
  BY <1>4, <1>9, PushesBool DEF Here
<1> QED
  BY <1>4, <1>7, <1>9, <1>10, <1>11, StepHere

(* An instruction that takes a value finds it on the stack.                  *)
LEMMA OneThere ==
    ASSUME NEW L, NEW V, VMInv(L, V), vm.outcome = "running",
           NEW n, n = Byte(opt.code, vm.ip + 3), Takes(Byte(opt.code, vm.ip), n) = 1
    PROVE  /\ PEEK_TOS(cache) = Peek(Contents(cache)) /\ PEEK_TOS(cache) \in V
           /\ Contents(DISCARD_TOS(cache)) = Drop(Contents(cache), 1)
<1>1. PICK h \in Nat : h = Height(cache)
  BY EnoughOnStack
<1>2. h >= 1
  BY <1>1, EnoughOnStack
<1>3. IsCache(cache, V)
  BY DEF VMInv, MachineOK
<1> QED
  BY <1>1, <1>2, <1>3, ContentsPeek, ContentsDiscard, PeekIn

LEMMA PopCanonical ==
    ASSUME NEW L, NEW V, VMInv(L, V), Matching(L), Pop
    PROVE  AsCanonical
<1>1. At(Op.POP) /\ Plain /\ opt' = opt
  BY DEF Pop, Plain
<1>2. Straight(Op.POP, 1, 0, 1)
  BY StraightTable
<1>3. vm.outcome = "running" /\ Byte(opt.code, vm.ip) = Op.POP
  BY <1>1, <1>2, Recognised DEF Straight
<1>4. PICK m, q, w, ops : Here(L, V, m, q, w, ops)
  BY <1>3, StartsHere
<1>5. PICK c : c = DISCARD_TOS(cache)
  OBVIOUS
<1>6. Flat(vm.ip + 1, w, c)
  BY <1>1, <1>3, <1>4, <1>5, GoIsFlat DEF Pop, Here
<1>7. Byte(chunk.code, q) = Op.POP /\ opt.origin[vm.ip + 1] = q + 1
  BY <1>3, <1>4 DEF Here, Before, StandsFor
<1>8. Contents(c) = Drop(ops, 1)
  BY <1>2, <1>3, <1>4, <1>5, OneThere DEF Here, Straight
<1>9. Canonical(Reference, At3(m, q, w, ops)) = At3(m, q + 1, w, Drop(ops, 1))
  BY <1>4, <1>7, DropsTop DEF Here
<1> QED
  BY <1>4, <1>6, <1>7, <1>8, <1>9, StepHere

LEMMA DupCanonical ==
    ASSUME NEW L, NEW V, VMInv(L, V), Matching(L), Dup
    PROVE  AsCanonical
<1>1. At(Op.DUP) /\ Plain /\ opt' = opt
  BY DEF Dup, Plain
<1>2. Straight(Op.DUP, 1, 2, 1)
  BY StraightTable
<1>3. vm.outcome = "running" /\ Byte(opt.code, vm.ip) = Op.DUP
  BY <1>1, <1>2, Recognised DEF Straight
<1>4. PICK m, q, w, ops : Here(L, V, m, q, w, ops)
  BY <1>3, StartsHere
<1>5. PICK v : v = PEEK_TOS(cache)
  OBVIOUS
<1>6. PICK c : c = PUSH_TOS(cache, v)
  OBVIOUS
<1>7. Flat(vm.ip + 1, w, c)
  BY <1>1, <1>3, <1>4, <1>5, <1>6, GoIsFlat DEF Dup, DUP_TOS, Here
<1>8. Byte(chunk.code, q) = Op.DUP /\ opt.origin[vm.ip + 1] = q + 1
  BY <1>3, <1>4 DEF Here, Before, StandsFor
<1>9. v = Peek(ops)
  BY <1>2, <1>3, <1>4, <1>5, OneThere DEF Here, Straight
<1>10. Contents(c) = Append(ops, v)
  BY <1>4, <1>6, PushedOnto DEF Here
<1>11. Canonical(Reference, At3(m, q, w, ops)) = At3(m, q + 1, w, Append(ops, v))
  BY <1>4, <1>8, <1>9, Copies DEF Here
<1> QED
  BY <1>4, <1>7, <1>8, <1>10, <1>11, StepHere

LEMMA LoadLocalCanonical ==
    ASSUME NEW L, NEW V, VMInv(L, V), Matching(L), LoadLocal
    PROVE  AsCanonical
<1>1. At(Op.LOAD_LOCAL) /\ Plain /\ opt' = opt
  BY DEF LoadLocal, Plain
<1>2. Straight(Op.LOAD_LOCAL, 0, 1, 3)
  BY StraightTable
<1>3. vm.outcome = "running" /\ Byte(opt.code, vm.ip) = Op.LOAD_LOCAL
  BY <1>1, <1>2, Recognised DEF Straight
<1>4. PICK m, q, w, ops : Here(L, V, m, q, w, ops)
  BY <1>3, StartsHere
<1>5. PICK v : v = Local(vm, U(1))
  OBVIOUS
<1>6. PICK c : c = PUSH_TOS(cache, v)
  OBVIOUS
<1>7. Flat(vm.ip + 3, w, c)
  BY <1>1, <1>3, <1>4, <1>5, <1>6, GoIsFlat DEF LoadLocal, Here
<1>8. U(1) = UInt16(opt.code, vm.ip + 1)
  BY <1>2, <1>3, Operands DEF Straight
<1>9. /\ Byte(chunk.code, q) = Op.LOAD_LOCAL /\ U(1) = UInt16(chunk.code, q + 1)
      /\ opt.origin[vm.ip + 3] = q + 3
  BY <1>3, <1>4, <1>8 DEF Here, Before, StandsFor
<1>10. v = Cell(w, LocalBase(m) + UInt16(chunk.code, q + 1))
  BY <1>4, <1>5, <1>9 DEF Local, Here
<1>11. Contents(c) = Append(ops, v)
  BY <1>4, <1>6, PushedOnto DEF Here
<1>12. Canonical(Reference, At3(m, q, w, ops)) = At3(m, q + 3, w, Append(ops, v))
  BY <1>4, <1>9, <1>10, Loads DEF Here
<1> QED
  BY <1>4, <1>7, <1>9, <1>11, <1>12, StepHere

LEMMA LoadSlotCanonical ==
    ASSUME NEW L, NEW V, VMInv(L, V), Matching(L), LoadSlot
    PROVE  AsCanonical
<1>1. PICK n \in 0 .. 3 : /\ At(Op.LOAD_LOCAL_0 + n) /\ Plain
                          /\ Go(vm, 1, PUSH_TOS(cache, Local(vm, n)))
  BY DEF LoadSlot
<1>2. Straight(Op.LOAD_LOCAL_0 + n, 0, 1, 1) /\ opt' = opt
  BY <1>1, StraightTable DEF Plain
<1>3. vm.outcome = "running" /\ Byte(opt.code, vm.ip) = Op.LOAD_LOCAL_0 + n
  BY <1>1, <1>2, Recognised DEF Straight
<1>4. PICK m, q, w, ops : Here(L, V, m, q, w, ops)
  BY <1>3, StartsHere
<1>5. PICK v : v = Local(vm, n)
  OBVIOUS
<1>6. PICK c : c = PUSH_TOS(cache, v)
  OBVIOUS
<1>7. Flat(vm.ip + 1, w, c)
  BY <1>1, <1>2, <1>3, <1>4, <1>5, <1>6, GoIsFlat DEF Here
<1>9. /\ Byte(chunk.code, q) = Op.LOAD_LOCAL /\ UInt16(chunk.code, q + 1) = n
      /\ opt.origin[vm.ip + 1] = q + 3
  BY <1>3, <1>4 DEF Here, Before, StandsFor
<1>10. v = Cell(w, LocalBase(m) + UInt16(chunk.code, q + 1))
  BY <1>4, <1>5, <1>9 DEF Local, Here
<1>11. Contents(c) = Append(ops, v)
  BY <1>4, <1>6, PushedOnto DEF Here
<1>12. Canonical(Reference, At3(m, q, w, ops)) = At3(m, q + 3, w, Append(ops, v))
  BY <1>4, <1>9, <1>10, Loads DEF Here
<1> QED
  BY <1>4, <1>7, <1>9, <1>11, <1>12, StepHere

(* The slot a store names lies in the frame, which ends at local_top_.       *)
LEMMA SlotBelowTop ==
    ASSUME NEW L, NEW V, VMInv(L, V), FramesAbut, NEW n \in Nat, n < FrameRunning
    PROVE  LocalBase(vm) \in Nat /\ vm.top \in Nat /\ LocalBase(vm) + n < vm.top
<1>1. vm.calls \in FrameRecords /\ opt.topSize \in Nat
  BY DEF VMInv, MachineOK, Verified
<1> QED
  BY <1>1, FrameOfSlots

LEMMA StoreLocalCanonical ==
    ASSUME NEW L, NEW V, VMInv(L, V), Matching(L), FramesAbut, StoreLocal
    PROVE  AsCanonical
<1>1. At(Op.STORE_LOCAL) /\ Plain /\ opt' = opt
  BY DEF StoreLocal, Plain
<1>2. Straight(Op.STORE_LOCAL, 1, 1, 3)
  BY StraightTable
<1>3. vm.outcome = "running" /\ Byte(opt.code, vm.ip) = Op.STORE_LOCAL
  BY <1>1, <1>2, Recognised DEF Straight
<1>4. PICK m, q, w, ops : Here(L, V, m, q, w, ops)
  BY <1>3, StartsHere
<1>5. PICK v : v = PEEK_TOS(cache)
  OBVIOUS
<1>6. PICK n \in Nat : n = U(1) /\ n < FrameRunning
  BY <1>1, SlotsWritten
<1>7. PICK w1 : w1 = WriteCells(w, LocalBase(m) + n, <<v>>)
  OBVIOUS
<1>8. Flat(vm.ip + 3, w1, cache)
  <2>1. Flat(vm.ip + 3, WriteCells(vm.locals, LocalBase(vm) + n, <<v>>), cache)
    BY <1>1, <1>3, <1>5, <1>6, StoreIsFlat DEF StoreLocal
  <2> QED
    BY <1>4, <1>7, <2>1 DEF Here
<1>9. U(1) = UInt16(opt.code, vm.ip + 1)
  BY <1>2, <1>3, Operands DEF Straight
<1>10. /\ Byte(chunk.code, q) = Op.STORE_LOCAL /\ n = UInt16(chunk.code, q + 1)
       /\ opt.origin[vm.ip + 3] = q + 3
  BY <1>3, <1>4, <1>6, <1>9 DEF Here, Before, StandsFor
<1>11. v = Peek(ops)
  BY <1>2, <1>3, <1>4, <1>5, OneThere DEF Here, Straight
<1>12. LocalBase(m) \in Nat /\ m.top \in Nat /\ LocalBase(m) + n < m.top
  BY <1>4, <1>6, SlotBelowTop DEF Here
<1>13. Canonical(Reference, At3(m, q, w, ops)) = At3(m, q + 3, w1, ops)
  BY <1>4, <1>7, <1>10, <1>11, <1>12, Stores DEF Here
<1>14. ops = Contents(cache)
  BY <1>4 DEF Here
<1> QED
  BY <1>4, <1>8, <1>10, <1>13, <1>14, StepHere

LEMMA StoreSlotCanonical ==
    ASSUME NEW L, NEW V, VMInv(L, V), Matching(L), FramesAbut, StoreSlot
    PROVE  AsCanonical
<1>1. PICK n \in 0 .. 3 : /\ At(Op.STORE_LOCAL_0 + n) /\ Plain
                          /\ Go(SetSlot(n, PEEK_TOS(cache)), 1, cache)
  BY DEF StoreSlot
<1>2. Straight(Op.STORE_LOCAL_0 + n, 1, 1, 1) /\ opt' = opt
  BY <1>1, StraightTable DEF Plain
<1>3. vm.outcome = "running" /\ Byte(opt.code, vm.ip) = Op.STORE_LOCAL_0 + n
  BY <1>1, <1>2, Recognised DEF Straight
<1>4. PICK m, q, w, ops : Here(L, V, m, q, w, ops)
  BY <1>3, StartsHere
<1>5. PICK v : v = PEEK_TOS(cache)
  OBVIOUS
<1>6. n \in Nat /\ n < FrameRunning
  <2>1. SlotsInFrame
    BY RoomForSlots
  <2>2. op = Op.STORE_LOCAL_0 + n
    BY <1>1 DEF At
  <2>3. n \in SlotsNamed(code, vm.ip, op)
    BY <2>2, SlotTable
  <2> QED
    BY <1>3, <2>1, <2>3 DEF SlotsInFrame
<1>7. PICK w1 : w1 = WriteCells(w, LocalBase(m) + n, <<v>>)
  OBVIOUS
<1>8. Flat(vm.ip + 1, w1, cache)
  <2>1. Flat(vm.ip + 1, WriteCells(vm.locals, LocalBase(vm) + n, <<v>>), cache)
    BY <1>1, <1>2, <1>3, <1>5, SlotIsFlat
  <2> QED
    BY <1>4, <1>7, <2>1 DEF Here
<1>10. /\ Byte(chunk.code, q) = Op.STORE_LOCAL /\ n = UInt16(chunk.code, q + 1)
       /\ opt.origin[vm.ip + 1] = q + 3
  BY <1>3, <1>4 DEF Here, Before, StandsFor
<1>11. v = Peek(ops)
  BY <1>2, <1>3, <1>4, <1>5, OneThere DEF Here, Straight
<1>12. LocalBase(m) \in Nat /\ m.top \in Nat /\ LocalBase(m) + n < m.top
  BY <1>4, <1>6, SlotBelowTop DEF Here
<1>13. Canonical(Reference, At3(m, q, w, ops)) = At3(m, q + 3, w1, ops)
  BY <1>4, <1>6, <1>7, <1>10, <1>11, <1>12, Stores DEF Here
<1>14. ops = Contents(cache)
  BY <1>4 DEF Here
<1> QED
  BY <1>4, <1>8, <1>10, <1>13, <1>14, StepHere

-----------------------------------------------------------------------------
LEMMA JumpCanonical ==
    ASSUME NEW L, NEW V, VMInv(L, V), Matching(L), Jump
    PROVE  AsCanonical
<1>1. At(Op.JUMP) /\ Plain /\ opt' = opt
  BY DEF Jump, Plain
<1>2. Op.JUMP \in Translated /\ Width(Op.JUMP) = 3
  BY JumpTable
<1>3. vm.outcome = "running" /\ Byte(opt.code, vm.ip) = Op.JUMP
  BY <1>1, <1>2, Recognised
<1>4. PICK m, q, w, ops : Here(L, V, m, q, w, ops)
  BY <1>3, StartsHere
<1>5. S(1) \in Int /\ S(1) = Int16(opt.code, vm.ip + 1)
  BY <1>1, <1>2, Distances
<1>6. PICK p : p = vm.ip + (3 + S(1))
  OBVIOUS
<1>7. Flat(p, w, cache)
  BY <1>1, <1>3, <1>4, <1>6, GoIsFlat DEF Jump, Here
<1>8. p = vm.ip + 1 + 2 + Int16(opt.code, vm.ip + 1)
  BY <1>4, <1>5, <1>6 DEF Here
<1>9. Byte(chunk.code, q) = Op.JUMP /\ opt.origin[p] = q + 1 + 2 + Int16(chunk.code, q + 1)
  BY <1>3, <1>4, <1>8 DEF Here, Before, StandsFor
<1>10. PICK q1 : q1 = q + 3 + Int16(chunk.code, q + 1)
  OBVIOUS
<1>11. opt.origin[p] = q1
  BY <1>4, <1>9, <1>10 DEF Here
<1>12. Canonical(Reference, At3(m, q, w, ops)) = At3(m, q1, w, ops)
  BY <1>4, <1>9, <1>10, JumpsTo DEF Here
<1>13. ops = Contents(cache)
  BY <1>4 DEF Here
<1> QED
  BY <1>4, <1>7, <1>11, <1>12, <1>13, StepHere

LEMMA JumpIfFalseCanonical ==
    ASSUME NEW L, NEW V, VMInv(L, V), Matching(L), JumpIfFalse
    PROVE  AsCanonical
<1>1. At(Op.JUMP_IF_FALSE) /\ Plain /\ opt' = opt
  BY DEF JumpIfFalse, Plain
<1>2. /\ Op.JUMP_IF_FALSE \in Translated /\ Width(Op.JUMP_IF_FALSE) = 3
      /\ \A n : Takes(Op.JUMP_IF_FALSE, n) = 1
  BY JumpTable
<1>3. vm.outcome = "running" /\ Byte(opt.code, vm.ip) = Op.JUMP_IF_FALSE
  BY <1>1, <1>2, Recognised
<1>4. PICK m, q, w, ops : Here(L, V, m, q, w, ops)
  BY <1>3, StartsHere
<1>5. S(1) \in Int /\ S(1) = Int16(opt.code, vm.ip + 1)
  BY <1>1, <1>2, Distances
<1>6. PICK v : v = PEEK_TOS(cache)
  OBVIOUS
<1>7. v = Peek(ops) /\ Contents(DISCARD_TOS(cache)) = Drop(ops, 1)
  BY <1>2, <1>3, <1>4, <1>6, OneThere DEF Here
<1>8. PICK p : p = vm.ip + (3 + (IF AsBool(v) THEN 0 ELSE S(1)))
  OBVIOUS
<1>9. PICK c : c = DISCARD_TOS(cache)
  OBVIOUS
<1>10. Flat(p, w, c)
  BY <1>1, <1>3, <1>4, <1>6, <1>8, <1>9, GoIsFlat DEF JumpIfFalse, Here
<1>11. /\ Byte(chunk.code, q) = Op.JUMP_IF_FALSE
       /\ opt.origin[vm.ip + 1 + 2 + S(1)] = q + 1 + 2 + Int16(chunk.code, q + 1)
       /\ opt.origin[vm.ip + 3] = q + 3
  BY <1>3, <1>4, <1>5 DEF Here, Before, StandsFor
<1>12. PICK q1 : q1 = q + 3 + (IF AsBool(v) THEN 0 ELSE Int16(chunk.code, q + 1))
  OBVIOUS
<1>13. opt.origin[p] = q1
  <2>1. CASE AsBool(v)
    <3>1. p = vm.ip + 3 /\ q1 = q + 3
      BY <1>4, <1>8, <1>12, <2>1 DEF Here
    <3> QED
      BY <1>11, <3>1
  <2>2. CASE ~AsBool(v)
    <3>1. PICK d \in Int : d = S(1)
      BY <1>5
    <3>2. p = vm.ip + (3 + d)
      BY <1>8, <2>2, <3>1
    <3>3. p = vm.ip + 1 + 2 + d
      BY <1>4, <3>2 DEF Here
    <3>4. q + 3 = q + 1 + 2
      BY <1>4 DEF Here
    <3>5. q1 = q + 1 + 2 + Int16(chunk.code, q + 1)
      BY <1>12, <2>2, <3>4
    <3> QED
      BY <1>11, <3>1, <3>3, <3>5
  <2> QED
    BY <2>1, <2>2
<1>14. PICK ops1 : ops1 = Drop(ops, 1)
  OBVIOUS
<1>15. Canonical(Reference, At3(m, q, w, ops)) = At3(m, q1, w, ops1)
  BY <1>4, <1>7, <1>11, <1>12, <1>14, BranchesOff DEF Here
<1>16. ops1 = Contents(c)
  BY <1>7, <1>9, <1>14
<1> QED
  BY <1>4, <1>10, <1>13, <1>15, <1>16, StepHere

LEMMA Branch3Canonical ==
    ASSUME NEW L, NEW V, VMInv(L, V), Matching(L), Branch3
    PROVE  AsCanonical
<1>1. At(Op.BRANCH_3) /\ Plain /\ opt' = opt
  BY DEF Branch3, Plain
<1>2. /\ Op.BRANCH_3 \in Translated /\ Width(Op.BRANCH_3) = 7
      /\ \A n : Takes(Op.BRANCH_3, n) = 1
  BY JumpTable
<1>3. vm.outcome = "running" /\ Byte(opt.code, vm.ip) = Op.BRANCH_3
  BY <1>1, <1>2, Recognised
<1>4. PICK m, q, w, ops : Here(L, V, m, q, w, ops)
  BY <1>3, StartsHere
<1>5. /\ S(1) \in Int /\ S(1) = Int16(opt.code, vm.ip + 1)
      /\ S(3) \in Int /\ S(3) = Int16(opt.code, vm.ip + 3)
      /\ S(5) \in Int /\ S(5) = Int16(opt.code, vm.ip + 5)
  BY <1>1, <1>2, Distances
<1>6. PICK v : v = PEEK_TOS(cache)
  OBVIOUS
<1>7. v = Peek(ops) /\ v \in V /\ Contents(DISCARD_TOS(cache)) = Drop(ops, 1)
  BY <1>2, <1>3, <1>4, <1>6, OneThere DEF Here
<1>8. PICK n \in Int : n = AsInt(v)
  BY <1>7, HasNumber
<1>9. PICK len : len = IF n < 0 THEN 3 + S(1) ELSE IF n = 0 THEN 5 + S(3) ELSE 7 + S(5)
  OBVIOUS
<1>10. PICK c : c = DISCARD_TOS(cache)
  OBVIOUS
<1>11. PICK p : p = vm.ip + len
  OBVIOUS
<1>12. Flat(p, w, c)
  <2>1. Go(vm, len, c)
    BY <1>6, <1>8, <1>9, <1>10 DEF Branch3
  <2> QED
    BY <1>1, <1>3, <1>4, <1>11, <2>1, GoIsFlat DEF Here
<1>13. /\ Byte(chunk.code, q) = Op.BRANCH_3
       /\ \A a \in {1, 3, 5} : opt.origin[vm.ip + a + 2 + Int16(opt.code, vm.ip + a)]
                                  = q + a + 2 + Int16(chunk.code, q + a)
  BY <1>3, <1>4 DEF Here, Before, StandsFor
<1>14. PICK arm \in {1, 3, 5} : arm = IF n < 0 THEN 1 ELSE IF n = 0 THEN 3 ELSE 5
  OBVIOUS
<1>15. p = vm.ip + arm + 2 + Int16(opt.code, vm.ip + arm)
  <2>1. PICK d \in Int : d = Int16(opt.code, vm.ip + arm)
    BY <1>5, <1>14
  <2>2. len = arm + 2 + d
    <3>1. CASE n < 0
      BY <1>5, <1>9, <1>14, <2>1, <3>1
    <3>2. CASE n = 0
      BY <1>5, <1>9, <1>14, <2>1, <3>2
    <3>3. CASE n > 0
      <4>1. ~(n < 0) /\ n # 0
        BY <3>3
      <4> QED
        BY <1>5, <1>9, <1>14, <2>1, <4>1
    <3> QED
      BY <3>1, <3>2, <3>3
  <2>3. vm.ip + (arm + 2 + d) = vm.ip + arm + 2 + d
    BY <1>4 DEF Here
  <2> QED
    BY <1>11, <2>1, <2>2, <2>3
<1>16. PICK q1 : q1 = q + arm + 2 + Int16(chunk.code, q + arm)
  OBVIOUS
<1>17. opt.origin[p] = q1
  BY <1>13, <1>15, <1>16
<1>18. PICK ops1 : ops1 = Drop(ops, 1)
  OBVIOUS
<1>19. Canonical(Reference, At3(m, q, w, ops)) = At3(m, q1, w, ops1)
  <2>1. /\ DOMAIN m = SyncedFields /\ Reference.code = chunk.code
        /\ Byte(chunk.code, q) = Op.BRANCH_3
    BY <1>4, <1>13 DEF Here
  <2>2. n \in Int /\ n = AsInt(Peek(ops)) /\ arm = IF n < 0 THEN 1 ELSE IF n = 0 THEN 3 ELSE 5
    BY <1>7, <1>8, <1>14
  <2> QED
    BY ONLY <1>16, <1>18, <2>1, <2>2, BranchesThree
<1>20. ops1 = Contents(c)
  BY <1>7, <1>10, <1>18
<1> QED
  BY <1>4, <1>12, <1>17, <1>19, <1>20, StepHere

(* An instruction that computes, quickened or not.                           *)
LEMMA ComputeCanonical ==
    ASSUME NEW L, NEW V, VMInv(L, V), Matching(L), vm.outcome = "running", NEW o \in Binaries,
           Byte(opt.code, vm.ip) = o, Compute(o), opt' = opt
    PROVE  AsCanonical
<1>1. PICK m, q, w, ops : Here(L, V, m, q, w, ops)
  BY StartsHere
<1>2. PICK a, b : a = TopTwo(cache)[1] /\ b = TopTwo(cache)[2]
  OBVIOUS
<1>3. PICK v : v = Apply(o, a, b)
  OBVIOUS
<1>4. PICK c : c = BINARY_OP(cache, v)
  OBVIOUS
<1>5. Flat(vm.ip + 1, w, c)
  <2>1. Go(vm, 1, c)
    BY <1>2, <1>3, <1>4 DEF Compute
  <2> QED
    BY <1>1, <2>1, GoIsFlat DEF Here
<1>6. PICK h \in Nat : Height(cache) = h
  BY Untouched
<1>7. h >= 2
  <2>1. 2 = Takes(Byte(opt.code, vm.ip), Byte(opt.code, vm.ip + 3)) /\ 2 \in Nat
    BY StraightTable DEF Straight
  <2> QED
    BY <1>6, <2>1, EnoughOnStack
<1>8. IsCache(cache, V)
  BY Untouched
<1>9. a = Args(ops, 2)[1] /\ b = Peek(ops)
  BY <1>1, <1>2, <1>6, <1>7, <1>8, ContentsTwo DEF Here
<1>10. Contents(c) = Append(Drop(ops, 2), v)
  BY <1>1, <1>4, <1>6, <1>7, <1>8, ContentsBinary DEF Here
<1>11. Byte(chunk.code, q) = o /\ opt.origin[vm.ip + 1] = q + 1
  BY <1>1 DEF Here, Before, StandsFor
<1>12. Canonical(Reference, At3(m, q, w, ops)) = At3(m, q + 1, w, Append(Drop(ops, 2), v))
  BY <1>1, <1>3, <1>9, <1>11, CombinesTop DEF Here
<1> QED
  BY <1>1, <1>5, <1>10, <1>11, <1>12, StepHere

LEMMA BinaryCanonical ==
    ASSUME NEW L, NEW V, VMInv(L, V), Matching(L), Binary
    PROVE  AsCanonical
<1>1. PICK o \in Binaries : At(o) /\ Compute(o) /\ UNCHANGED <<chunk, opt, fieldICs, methodICs>>
  BY DEF Binary
<1>2. o \in Translated
  BY DEF Translated
<1>3. vm.outcome = "running" /\ Byte(opt.code, vm.ip) = o
  BY <1>1, <1>2, Recognised
<1> QED
  BY <1>1, <1>3, ComputeCanonical

LEMMA QuickCanonical ==
    ASSUME NEW L, NEW V, VMInv(L, V), Matching(L), Quick
    PROVE  AsCanonical
<1>1. PICK o \in DOMAIN QuickOf : At(QuickOf[o]) /\ Compute(o) /\ UNCHANGED <<chunk, opt, sites>>
  BY DEF Quick
<1>2. o \in Binaries
  BY QuickTable
<1>3. vm.outcome = "running" /\ op = QuickOf[o]
  BY <1>1 DEF At
<1>4. Byte(opt.code, vm.ip) = o
  <2> DEFINE i == Byte(opt.code, vm.ip)
  <2>1. i \in Translated /\ (op = i \/ (i \in DOMAIN QuickOf /\ op = QuickOf[i]))
    BY <1>3, Decoded
  <2> HIDE DEF i
  <2>2. i = o
    BY <1>3, <2>1, QuickTable
  <2> QED
    BY <2>2 DEF i
<1> QED
  BY <1>1, <1>2, <1>3, <1>4, ComputeCanonical

-----------------------------------------------------------------------------
(* Several canonical instructions from m on, in the frame of m.              *)
Run(m, ip, w, ops, n, target) == Leads(m, At3(m, ip, w, ops), n, target)

IsSeq(r) == \E X : r \in Seq(X)

LEMMA SeqLonger ==
    ASSUME NEW r, IsSeq(r), NEW v
    PROVE  /\ IsSeq(Append(r, v)) /\ Peek(Append(r, v)) = v /\ Drop(Append(r, v), 1) = r
<1>1. PICK X : r \in Seq(X)
  BY DEF IsSeq
<1>2. PICK Y : Y = X \cup {v}
  OBVIOUS
<1>3. r \in Seq(Y) /\ v \in Y
  BY <1>1, <1>2, LargerSeq
<1>4. PICK ops : ops = Append(r, v)
  OBVIOUS
<1>5. ops \in Seq(Y) /\ Peek(ops) = v /\ Drop(ops, 1) = r
  BY <1>3, <1>4, OnTop
<1> QED
  BY <1>4, <1>5 DEF IsSeq

LEMMA RunStarts ==
    ASSUME NEW L, NEW V, NEW m, NEW q, NEW w, NEW ops, Here(L, V, m, q, w, ops), NEW target
    PROVE  Run(m, q, w, ops, 0, target) /\ IsSeq(ops)
<1>1. Leads(m, m, 0, target)
  BY LeadsNowhere
<1>2. m = At3(m, q, w, ops) /\ ops \in Seq(V)
  BY DEF Here
<1> QED
  BY <1>1, <1>2 DEF Run, IsSeq

LEMMA RunsOn ==
    ASSUME NEW m, DOMAIN m = SyncedFields, m.outcome = "running",
           NEW ip, NEW w, NEW ops, NEW n \in Nat, NEW target, Run(m, ip, w, ops, n, target),
           ip # target, NEW ip1, NEW w1, NEW ops1, NEW n1, n1 = n + 1,
           Canonical(Reference, At3(m, ip, w, ops)) = At3(m, ip1, w1, ops1)
    PROVE  Run(m, ip1, w1, ops1, n1, target)
<1>1. PICK s : s = At3(m, ip, w, ops)
  OBVIOUS
<1>2. s.ip = ip /\ s.outcome = "running"
  BY <1>1, MovedState
<1>3. PICK s1 : s1 = At3(m, ip1, w1, ops1)
  OBVIOUS
<1>4. Leads(m, s, n, target) /\ s1 = Canonical(Reference, s)
  BY <1>1, <1>3 DEF Run
<1>5. Leads(m, s1, n + 1, target)
  BY <1>2, <1>4, LeadsOn
<1> QED
  BY <1>3, <1>5 DEF Run

(* The run of the machine that is here.                                      *)
Runs(m, ip, w, ops, n, target) ==
    /\ DOMAIN m = SyncedFields /\ m.outcome = "running" /\ Reference.code = chunk.code
    /\ IsSeq(ops) /\ ip \in Nat /\ n \in Nat /\ Run(m, ip, w, ops, n, target)

LEMMA RunsHere ==
    ASSUME NEW L, NEW V, NEW m, NEW q, NEW w, NEW ops, Here(L, V, m, q, w, ops), NEW target
    PROVE  Runs(m, q, w, ops, 0, target)
BY RunStarts DEF Runs, Here, Before

LEMMA RunsLoad ==
    ASSUME NEW m, NEW ip, NEW w, NEW ops, NEW n, NEW target, Runs(m, ip, w, ops, n, target),
           ip # target, Byte(chunk.code, ip) = Op.LOAD_LOCAL,
           NEW v, v = Cell(w, LocalBase(m) + UInt16(chunk.code, ip + 1)),
           NEW ip1, ip1 = ip + 3, NEW n1, n1 = n + 1
    PROVE  Runs(m, ip1, w, Append(ops, v), n1, target)
<1>1. Canonical(Reference, At3(m, ip, w, ops)) = At3(m, ip1, w, Append(ops, v))
  BY Loads DEF Runs
<1>2. Run(m, ip1, w, Append(ops, v), n1, target)
  BY <1>1, RunsOn DEF Runs
<1> QED
  BY <1>2, SeqLonger DEF Runs

LEMMA RunsPush ==
    ASSUME NEW m, NEW ip, NEW w, NEW ops, NEW n, NEW target, Runs(m, ip, w, ops, n, target),
           ip # target, Byte(chunk.code, ip) = Op.PUSH_INT,
           NEW v, v = Number(Int64(chunk.code, ip + 1)),
           NEW ip1, ip1 = ip + 9, NEW n1, n1 = n + 1
    PROVE  Runs(m, ip1, w, Append(ops, v), n1, target)
<1>1. Canonical(Reference, At3(m, ip, w, ops)) = At3(m, ip1, w, Append(ops, v))
  BY PushesNumber DEF Runs
<1>2. Run(m, ip1, w, Append(ops, v), n1, target)
  BY <1>1, RunsOn DEF Runs
<1> QED
  BY <1>2, SeqLonger DEF Runs

LEMMA RunsCombine ==
    ASSUME NEW m, NEW ip, NEW w, NEW ops, NEW n, NEW target, Runs(m, ip, w, ops, n, target),
           ip # target, NEW o \in Binaries, Byte(chunk.code, ip) = o,
           NEW r, IsSeq(r), NEW a, NEW b, ops = Two(r, a, b), NEW v, v = Apply(o, a, b),
           NEW ip1, ip1 = ip + 1, NEW n1, n1 = n + 1
    PROVE  Runs(m, ip1, w, Append(r, v), n1, target)
<1>1. PICK X : r \in Seq(X)
  BY DEF IsSeq
<1>2. PICK Y : Y = X \cup {a, b}
  OBVIOUS
<1>3. r \in Seq(Y) /\ a \in Y /\ b \in Y
  BY <1>1, <1>2, LargerSeq
<1>4. Canonical(Reference, At3(m, ip, w, ops)) = At3(m, ip1, w, Append(r, v))
  BY <1>3, Combines DEF Runs
<1>5. Run(m, ip1, w, Append(r, v), n1, target)
  BY <1>4, RunsOn DEF Runs
<1> QED
  BY <1>5, SeqLonger DEF Runs

LEMMA RunsStore ==
    ASSUME NEW m, NEW ip, NEW w, NEW ops, NEW n, NEW target, Runs(m, ip, w, ops, n, target),
           ip # target, Byte(chunk.code, ip) = Op.STORE_LOCAL,
           NEW k \in Nat, k = UInt16(chunk.code, ip + 1),
           LocalBase(m) \in Nat, m.top \in Nat, LocalBase(m) + k < m.top, NEW v, v = Peek(ops),
           NEW w1, w1 = WriteCells(w, LocalBase(m) + k, <<v>>),
           NEW ip1, ip1 = ip + 3, NEW n1, n1 = n + 1
    PROVE  Runs(m, ip1, w1, ops, n1, target)
<1>1. Canonical(Reference, At3(m, ip, w, ops)) = At3(m, ip1, w1, ops)
  BY Stores DEF Runs
<1>2. Run(m, ip1, w1, ops, n1, target)
  BY <1>1, RunsOn DEF Runs
<1> QED
  BY <1>2 DEF Runs

LEMMA RunsDrop ==
    ASSUME NEW m, NEW ip, NEW w, NEW ops, NEW n, NEW target, Runs(m, ip, w, ops, n, target),
           ip # target, Byte(chunk.code, ip) = Op.POP, NEW r, IsSeq(r), r = Drop(ops, 1),
           NEW ip1, ip1 = ip + 1, NEW n1, n1 = n + 1
    PROVE  Runs(m, ip1, w, r, n1, target)
<1>1. Canonical(Reference, At3(m, ip, w, ops)) = At3(m, ip1, w, r)
  BY DropsTop DEF Runs
<1>2. Run(m, ip1, w, r, n1, target)
  BY <1>1, RunsOn DEF Runs
<1> QED
  BY <1>2 DEF Runs

LEMMA RunsBranch ==
    ASSUME NEW m, NEW ip, NEW w, NEW ops, NEW n, NEW target, Runs(m, ip, w, ops, n, target),
           ip # target, Byte(chunk.code, ip) = Op.JUMP_IF_FALSE, NEW r, IsSeq(r), r = Drop(ops, 1),
           NEW ip1 \in Nat, ip1 = ip + 3 + (IF AsBool(Peek(ops)) THEN 0 ELSE Int16(chunk.code, ip + 1)),
           NEW n1, n1 = n + 1
    PROVE  Runs(m, ip1, w, r, n1, target)
<1>1. Canonical(Reference, At3(m, ip, w, ops)) = At3(m, ip1, w, r)
  BY BranchesOff DEF Runs
<1>2. Run(m, ip1, w, r, n1, target)
  BY <1>1, RunsOn DEF Runs
<1> QED
  BY <1>2 DEF Runs

LEMMA RunLands ==
    ASSUME NEW L, NEW V, NEW m, NEW q, NEW w, NEW ops, Here(L, V, m, q, w, ops),
           NEW p, NEW w1, NEW c, Flat(p, w1, c), NEW target, target = opt.origin[p],
           NEW n \in 1 .. 20, NEW ops1, ops1 = Contents(c),
           Runs(m, target, w1, ops1, n, target)
    PROVE  AsCanonical
<1>1. PICK s : s = At3(m, target, w1, Contents(c))
  OBVIOUS
<1>2. Leads(m, s, n, target) /\ Before(L, V, m, q)
  BY <1>1 DEF Runs, Run, Here
<1> QED
  BY <1>1, <1>2, Lands

LEMMA OneDiscarded ==
    ASSUME NEW L, NEW V, VMInv(L, V), vm.outcome = "running",
           NEW n, n = Byte(opt.code, vm.ip + 3), Takes(Byte(opt.code, vm.ip), n) = 1
    PROVE  IsCache(DISCARD_TOS(cache), V)
<1>1. PICK h \in Nat : h = Height(cache)
  BY EnoughOnStack
<1>2. Height(cache) >= 1
  BY EnoughOnStack
<1>3. IsCache(cache, V)
  BY DEF VMInv, MachineOK
<1> QED
  BY <1>2, <1>3, DiscardStacks DEF Stacked

(* A store followed by a pop.                                                *)
LEMMA StoresAndPops ==
    ASSUME NEW L, NEW V, VMInv(L, V), FramesAbut, NEW m, NEW q, NEW w, NEW ops,
           Here(L, V, m, q, w, ops), NEW n \in Nat, n < FrameRunning,
           NEW v, v = PEEK_TOS(cache), v = Peek(ops),
           NEW w1, w1 = WriteCells(vm.locals, LocalBase(vm) + n, <<v>>),
           NEW c, c = DISCARD_TOS(cache), IsCache(c, V), Contents(c) = Drop(ops, 1),
           NEW p, Flat(p, w1, c), opt.origin[p] = q + 4,
           \A x \in StorePop : Byte(chunk.code, q + x[1]) = x[2],
           n = UInt16(chunk.code, q + 1)
    PROVE  AsCanonical
<1>1. PICK target : target = q + 4
  OBVIOUS
<1>2. q \in Nat /\ q # target /\ q + 3 # target /\ (q + 3) + 1 = target /\ q + 0 = q
  BY <1>1 DEF Here
<1>3. Byte(chunk.code, q) = Op.STORE_LOCAL /\ Byte(chunk.code, q + 3) = Op.POP
  <2>1. <<0, Op.STORE_LOCAL>> \in StorePop /\ <<3, Op.POP>> \in StorePop
    BY DEF StorePop
  <2>2. Byte(chunk.code, q + 0) = Op.STORE_LOCAL /\ Byte(chunk.code, q + 3) = Op.POP
    BY <2>1
  <2> QED
    BY <1>2, <2>2
<1>4. LocalBase(m) \in Nat /\ m.top \in Nat /\ LocalBase(m) + n < m.top
  BY SlotBelowTop DEF Here
<1>5. w1 = WriteCells(w, LocalBase(m) + n, <<v>>)
  BY DEF Here
<1>6. Runs(m, q, w, ops, 0, target)
  BY RunsHere
<1>7. PICK ip1 : ip1 = q + 3
  OBVIOUS
<1>8. Runs(m, ip1, w1, ops, 1, target)
  <2>1. 1 = 0 + 1
    OBVIOUS
  <2> QED
    BY <1>2, <1>3, <1>4, <1>5, <1>6, <1>7, <2>1, RunsStore
<1>9. PICK r : r = Drop(ops, 1)
  OBVIOUS
<1>10. IsSeq(r)
  <2>1. Contents(c) \in Seq(V)
    BY FlushStacks
  <2> QED
    BY <1>9, <2>1 DEF IsSeq
<1>11. Runs(m, target, w1, r, 2, target)
  <2>1. 2 = 1 + 1
    OBVIOUS
  <2>2. target = ip1 + 1 /\ ip1 # target
    BY <1>2, <1>7
  <2> QED
    BY <1>3, <1>7, <1>8, <1>9, <1>10, <2>1, <2>2, RunsDrop
<1>12. 2 \in 1 .. 20 /\ r = Contents(c) /\ target = opt.origin[p]
  BY <1>1, <1>9
<1> QED
  BY <1>11, <1>12, RunLands

LEMMA StoreLocalPopCanonical ==
    ASSUME NEW L, NEW V, VMInv(L, V), Matching(L), FramesAbut, StoreLocalPop
    PROVE  AsCanonical
<1>1. At(Op.STORE_LOCAL_POP) /\ Plain /\ opt' = opt
  BY DEF StoreLocalPop, Plain
<1>2. Straight(Op.STORE_LOCAL_POP, 1, 0, 3)
  BY StraightTable
<1>3. vm.outcome = "running" /\ Byte(opt.code, vm.ip) = Op.STORE_LOCAL_POP
  BY <1>1, <1>2, Recognised DEF Straight
<1>4. PICK m, q, w, ops : Here(L, V, m, q, w, ops)
  BY <1>3, StartsHere
<1>5. PICK v : v = PEEK_TOS(cache)
  OBVIOUS
<1>6. PICK n \in Nat : n = U(1) /\ n < FrameRunning
  BY <1>1, SlotsWritten
<1>7. PICK c : c = DISCARD_TOS(cache)
  OBVIOUS
<1>8. PICK w1 : w1 = WriteCells(vm.locals, LocalBase(vm) + n, <<v>>)
  OBVIOUS
<1>9. PICK p : p = vm.ip + 3
  OBVIOUS
<1>10. Flat(p, w1, c)
  BY <1>1, <1>3, <1>5, <1>6, <1>7, <1>8, <1>9, StoreIsFlat DEF StoreLocalPop
<1>11. U(1) = UInt16(opt.code, vm.ip + 1)
  BY <1>2, <1>3, Operands DEF Straight
<1>12. /\ \A x \in StorePop : Byte(chunk.code, q + x[1]) = x[2]
       /\ n = UInt16(chunk.code, q + 1) /\ opt.origin[p] = q + 4
  BY <1>3, <1>4, <1>6, <1>9, <1>11 DEF Here, Before, StandsFor
<1>13. v = Peek(ops) /\ Contents(c) = Drop(ops, 1)
  BY <1>2, <1>3, <1>4, <1>5, <1>7, OneThere DEF Here, Straight
<1>14. IsCache(c, V)
  BY <1>2, <1>3, <1>7, OneDiscarded DEF Straight
<1> QED
  BY <1>4, <1>5, <1>6, <1>7, <1>8, <1>10, <1>12, <1>13, <1>14, StoresAndPops

LEMMA StoreSlotPopCanonical ==
    ASSUME NEW L, NEW V, VMInv(L, V), Matching(L), FramesAbut, StoreSlotPop
    PROVE  AsCanonical
<1>1. PICK n \in 0 .. 3 : /\ At(Op.STORE_LOCAL_0_POP + n) /\ Plain
                          /\ Go(SetSlot(n, PEEK_TOS(cache)), 1, DISCARD_TOS(cache))
  BY DEF StoreSlotPop
<1>2. Straight(Op.STORE_LOCAL_0_POP + n, 1, 0, 1) /\ opt' = opt
  BY <1>1, StraightTable DEF Plain
<1>3. vm.outcome = "running" /\ Byte(opt.code, vm.ip) = Op.STORE_LOCAL_0_POP + n
  BY <1>1, <1>2, Recognised DEF Straight
<1>4. PICK m, q, w, ops : Here(L, V, m, q, w, ops)
  BY <1>3, StartsHere
<1>5. PICK v : v = PEEK_TOS(cache)
  OBVIOUS
<1>6. n \in Nat /\ n < FrameRunning
  <2>1. SlotsInFrame
    BY RoomForSlots
  <2>2. op = Op.STORE_LOCAL_0_POP + n
    BY <1>1 DEF At
  <2>3. n \in SlotsNamed(code, vm.ip, op)
    BY <2>2, SlotTable
  <2> QED
    BY <1>3, <2>1, <2>3 DEF SlotsInFrame
<1>7. PICK c : c = DISCARD_TOS(cache)
  OBVIOUS
<1>8. PICK w1 : w1 = WriteCells(vm.locals, LocalBase(vm) + n, <<v>>)
  OBVIOUS
<1>9. PICK p : p = vm.ip + 1
  OBVIOUS
<1>10. Flat(p, w1, c)
  BY <1>1, <1>2, <1>3, <1>5, <1>7, <1>8, <1>9, SlotIsFlat
<1>12. /\ \A x \in StorePop : Byte(chunk.code, q + x[1]) = x[2]
       /\ n = UInt16(chunk.code, q + 1) /\ opt.origin[p] = q + 4
  BY <1>3, <1>4, <1>9 DEF Here, Before, StandsFor
<1>13. v = Peek(ops) /\ Contents(c) = Drop(ops, 1)
  BY <1>2, <1>3, <1>4, <1>5, <1>7, OneThere DEF Here, Straight
<1>14. IsCache(c, V)
  BY <1>2, <1>3, <1>7, OneDiscarded DEF Straight
<1> QED
  BY <1>4, <1>5, <1>6, <1>7, <1>8, <1>10, <1>12, <1>13, <1>14, StoresAndPops

LEMMA LoadLoadCanonical ==
    ASSUME NEW L, NEW V, VMInv(L, V), Matching(L), LoadLoadLocal
    PROVE  AsCanonical
<1>1. At(Op.LOAD_LOAD_LOCAL) /\ Plain /\ opt' = opt
  BY DEF LoadLoadLocal, Plain
<1>2. Straight(Op.LOAD_LOAD_LOCAL, 0, 2, 5)
  BY StraightTable
<1>3. vm.outcome = "running" /\ Byte(opt.code, vm.ip) = Op.LOAD_LOAD_LOCAL
  BY <1>1, <1>2, Recognised DEF Straight
<1>4. PICK m, q, w, ops : Here(L, V, m, q, w, ops)
  BY <1>3, StartsHere
<1>5. PICK a, b : a = Local(vm, U(1)) /\ b = Local(vm, U(3))
  OBVIOUS
<1>6. PICK c : c = PUSH_TWO(cache, a, b)
  OBVIOUS
<1>7. PICK p : p = vm.ip + 5
  OBVIOUS
<1>8. Flat(p, w, c)
  BY <1>1, <1>3, <1>4, <1>5, <1>6, <1>7, GoIsFlat DEF LoadLoadLocal, Here
<1>9. U(1) = UInt16(opt.code, vm.ip + 1) /\ U(3) = UInt16(opt.code, vm.ip + 3)
  BY <1>2, <1>3, Operands DEF Straight
<1>10. /\ \A x \in LoadLoad : Byte(chunk.code, q + x[1]) = x[2]
       /\ U(1) = UInt16(chunk.code, q + 1) /\ U(3) = UInt16(chunk.code, q + 4)
       /\ opt.origin[p] = q + 6
  BY <1>3, <1>4, <1>7, <1>9 DEF Here, Before, StandsFor
<1>11. PICK target : target = q + 6
  OBVIOUS
<1>12. PICK ip1 : ip1 = q + 3
  OBVIOUS
<1>13. /\ q \in Nat /\ q # target /\ ip1 # target /\ target = ip1 + 3 /\ q + 0 = q
       /\ ip1 + 1 = q + 4 /\ 1 = 0 + 1 /\ 2 = 1 + 1
  BY <1>4, <1>11, <1>12 DEF Here
<1>14. Byte(chunk.code, q) = Op.LOAD_LOCAL /\ Byte(chunk.code, ip1) = Op.LOAD_LOCAL
  <2>1. <<0, Op.LOAD_LOCAL>> \in LoadLoad /\ <<3, Op.LOAD_LOCAL>> \in LoadLoad
    BY DEF LoadLoad
  <2>2. Byte(chunk.code, q + 0) = Op.LOAD_LOCAL /\ Byte(chunk.code, q + 3) = Op.LOAD_LOCAL
    BY <1>10, <2>1
  <2> QED
    BY <1>12, <1>13, <2>2
<1>15. /\ a = Cell(w, LocalBase(m) + UInt16(chunk.code, q + 1))
       /\ b = Cell(w, LocalBase(m) + UInt16(chunk.code, ip1 + 1))
  BY <1>4, <1>5, <1>10, <1>13 DEF Local, Here
<1>16. Runs(m, q, w, ops, 0, target)
  BY <1>4, RunsHere
<1>17. PICK r : r = Append(ops, a)
  OBVIOUS
<1>18. Runs(m, ip1, w, r, 1, target)
  BY <1>12, <1>13, <1>14, <1>15, <1>16, <1>17, RunsLoad
<1>19. PICK s : s = Append(r, b)
  OBVIOUS
<1>20. Runs(m, target, w, s, 2, target)
  BY <1>13, <1>14, <1>15, <1>18, <1>19, RunsLoad
<1>21. s = Contents(c)
  <2>1. IsCache(cache, V) /\ a \in V /\ b \in V
    BY <1>5, Untouched
  <2>2. Contents(c) = Append(Append(Contents(cache), a), b)
    BY <1>6, <2>1, ContentsPushTwo
  <2> QED
    BY <1>4, <1>17, <1>19, <2>2 DEF Here
<1>22. 2 \in 1 .. 20 /\ target = opt.origin[p]
  BY <1>10, <1>11
<1> QED
  BY <1>4, <1>8, <1>20, <1>21, <1>22, RunLands

-----------------------------------------------------------------------------
(* The superinstructions: several canonical instructions in one.             *)

LEMMA MadeAt ==
    ASSUME NEW P, NEW q, \A x \in P : Byte(chunk.code, q + x[1]) = x[2],
           NEW k, NEW i, <<k, i>> \in P, NEW r, r = q + k
    PROVE  Byte(chunk.code, r) = i
<1>1. <<k, i>>[1] = k /\ <<k, i>>[2] = i
  OBVIOUS
<1> QED
  BY <1>1

LEMMA Arithmetical ==
    /\ Op.ADD \in Binaries /\ Op.MUL \in Binaries /\ Op.LT \in Binaries /\ Op.GT \in Binaries
    /\ Op.TERNARY_MIN \in Binaries /\ Op.TERNARY_MAX \in Binaries
BY DEF Binaries

(* What the fused instructions replaced, run one after the other.            *)
LEMMA AddStoreRuns ==
    ASSUME NEW L, NEW V, NEW m, NEW q, NEW w, NEW ops, Here(L, V, m, q, w, ops),
           \A x \in AddStore : Byte(chunk.code, q + x[1]) = x[2],
           NEW target, target = q + 11,
           NEW a, a = Cell(w, LocalBase(m) + UInt16(chunk.code, q + 1)),
           NEW b, b = Cell(w, LocalBase(m) + UInt16(chunk.code, q + 4)),
           NEW v, v = Apply(Op.ADD, a, b),
           NEW n \in Nat, n = UInt16(chunk.code, q + 8),
           LocalBase(m) \in Nat, m.top \in Nat, LocalBase(m) + n < m.top,
           NEW w1, w1 = WriteCells(w, LocalBase(m) + n, <<v>>)
    PROVE  Runs(m, target, w1, ops, 5, target)
<1>1. PICK q3, q6, q7, q10 : q3 = q + 3 /\ q6 = q + 6 /\ q7 = q + 7 /\ q10 = q + 10
  OBVIOUS
<1>2. q \in Nat /\ target = q + 11
  BY DEF Here
<1>3. /\ q \in Nat /\ q + 0 = q /\ q # target /\ q3 # target /\ q6 # target
      /\ q7 # target /\ q10 # target /\ q3 = q + 3 /\ q6 = q3 + 3 /\ q3 + 1 = q + 4
      /\ q7 = q6 + 1 /\ q10 = q7 + 3 /\ q7 + 1 = q + 8 /\ target = q10 + 1 /\ 1 = 0 + 1
      /\ 2 = 1 + 1 /\ 3 = 2 + 1 /\ 4 = 3 + 1 /\ 5 = 4 + 1
  BY ONLY <1>1, <1>2
<1>4. /\ <<0, Op.LOAD_LOCAL>> \in AddStore /\ <<3, Op.LOAD_LOCAL>> \in AddStore
      /\ <<6, Op.ADD>> \in AddStore /\ <<7, Op.STORE_LOCAL>> \in AddStore
      /\ <<10, Op.POP>> \in AddStore
  BY DEF AddStore
<1>5. /\ Byte(chunk.code, q) = Op.LOAD_LOCAL /\ Byte(chunk.code, q3) = Op.LOAD_LOCAL
      /\ Byte(chunk.code, q6) = Op.ADD /\ Byte(chunk.code, q7) = Op.STORE_LOCAL
      /\ Byte(chunk.code, q10) = Op.POP
  BY <1>1, <1>3, <1>4, MadeAt
<1>6. Runs(m, q, w, ops, 0, target)
  BY RunsHere
<1>7. PICK r1 : r1 = Append(ops, a)
  OBVIOUS
<1>8. Runs(m, q3, w, r1, 1, target)
  BY <1>3, <1>5, <1>6, <1>7, RunsLoad
<1>9. PICK r2 : r2 = Append(r1, b)
  OBVIOUS
<1>10. Runs(m, q6, w, r2, 2, target)
  BY <1>3, <1>5, <1>8, <1>9, RunsLoad
<1>11. r2 = Two(ops, a, b)
  BY <1>7, <1>9 DEF Two
<1>12. IsSeq(ops)
  BY <1>6 DEF Runs
<1>13. PICK r3 : r3 = Append(ops, v)
  OBVIOUS
<1>14. /\ q6 # target /\ q7 = q6 + 1 /\ 3 = 2 + 1
       /\ Byte(chunk.code, q6) = Op.ADD /\ Op.ADD \in Binaries
       /\ v = Apply(Op.ADD, a, b)
  BY <1>3, <1>5, Arithmetical
<1>15. Runs(m, q7, w, r3, 3, target)
  BY ONLY <1>14, <1>10, <1>11, <1>12, <1>13, RunsCombine
<1>16. IsSeq(ops)
  BY <1>6 DEF Runs
<1>17. /\ Peek(r3) = v /\ Drop(r3, 1) = ops
  BY <1>16, <1>13, SeqLonger
<1>18. /\ q7 # target /\ q10 = q7 + 3 /\ 4 = 3 + 1
       /\ Byte(chunk.code, q7) = Op.STORE_LOCAL /\ n \in Nat
       /\ n = UInt16(chunk.code, q7 + 1) /\ LocalBase(m) \in Nat /\ m.top \in Nat
       /\ LocalBase(m) + n < m.top /\ w1 = WriteCells(w, LocalBase(m) + n, <<v>>)
  BY <1>3, <1>5
<1>19. Runs(m, q10, w1, r3, 4, target)
  BY ONLY <1>18, <1>15, <1>17, RunsStore
<1>20. /\ q10 # target /\ target = q10 + 1 /\ 5 = 4 + 1
       /\ Byte(chunk.code, q10) = Op.POP
  BY <1>3, <1>5
<1>21. Runs(m, target, w1, ops, 5, target)
  BY ONLY <1>20, <1>19, <1>16, <1>17, RunsDrop
<1> QED
  BY <1>21

(* What a * b + c comes to.                                                  *)
LEMMA MulThenAddRuns ==
    ASSUME NEW L, NEW V, NEW m, NEW q, NEW w, NEW ops, Here(L, V, m, q, w, ops),
           \A x \in MulThenAdd : Byte(chunk.code, q + x[1]) = x[2],
           NEW target, target = q + 15,
           NEW a, a = Cell(w, LocalBase(m) + UInt16(chunk.code, q + 1)),
           NEW b, b = Cell(w, LocalBase(m) + UInt16(chunk.code, q + 4)),
           NEW d, d = Cell(w, LocalBase(m) + UInt16(chunk.code, q + 8)),
           NEW u, u = Apply(Op.MUL, a, b), NEW v, v = Apply(Op.ADD, u, d),
           NEW n \in Nat, n = UInt16(chunk.code, q + 12),
           LocalBase(m) \in Nat, m.top \in Nat, LocalBase(m) + n < m.top,
           NEW w1, w1 = WriteCells(w, LocalBase(m) + n, <<v>>)
    PROVE  Runs(m, target, w1, ops, 7, target)
<1>1. PICK q3, q6, q7, q10, q11, q14 : q3 = q + 3 /\ q6 = q + 6 /\ q7 = q + 7
      /\ q10 = q + 10 /\ q11 = q + 11 /\ q14 = q + 14
  OBVIOUS
<1>2. q \in Nat /\ target = q + 15
  BY DEF Here
<1>3. /\ q \in Nat /\ q + 0 = q /\ q # target /\ q3 # target /\ q6 # target
      /\ q7 # target /\ q10 # target /\ q11 # target /\ q14 # target /\ q3 = q + 3
      /\ q6 = q3 + 3 /\ q3 + 1 = q + 4 /\ q7 = q6 + 1 /\ q10 = q7 + 3 /\ q7 + 1 = q + 8
      /\ q11 = q10 + 1 /\ q14 = q11 + 3 /\ q11 + 1 = q + 12 /\ target = q14 + 1
      /\ 1 = 0 + 1 /\ 2 = 1 + 1 /\ 3 = 2 + 1 /\ 4 = 3 + 1 /\ 5 = 4 + 1 /\ 6 = 5 + 1
      /\ 7 = 6 + 1
  BY ONLY <1>1, <1>2
<1>4. /\ <<0, Op.LOAD_LOCAL>> \in MulThenAdd /\ <<3, Op.LOAD_LOCAL>> \in MulThenAdd
      /\ <<6, Op.MUL>> \in MulThenAdd /\ <<7, Op.LOAD_LOCAL>> \in MulThenAdd
      /\ <<10, Op.ADD>> \in MulThenAdd /\ <<11, Op.STORE_LOCAL>> \in MulThenAdd
      /\ <<14, Op.POP>> \in MulThenAdd
  BY DEF MulThenAdd
<1>5. /\ Byte(chunk.code, q) = Op.LOAD_LOCAL /\ Byte(chunk.code, q3) = Op.LOAD_LOCAL
      /\ Byte(chunk.code, q6) = Op.MUL /\ Byte(chunk.code, q7) = Op.LOAD_LOCAL
      /\ Byte(chunk.code, q10) = Op.ADD /\ Byte(chunk.code, q11) = Op.STORE_LOCAL
      /\ Byte(chunk.code, q14) = Op.POP
  BY <1>1, <1>3, <1>4, MadeAt
<1>6. Runs(m, q, w, ops, 0, target)
  BY RunsHere
<1>7. PICK r1 : r1 = Append(ops, a)
  OBVIOUS
<1>8. Runs(m, q3, w, r1, 1, target)
  BY <1>3, <1>5, <1>6, <1>7, RunsLoad
<1>9. PICK r2 : r2 = Append(r1, b)
  OBVIOUS
<1>10. Runs(m, q6, w, r2, 2, target)
  BY <1>3, <1>5, <1>8, <1>9, RunsLoad
<1>11. r2 = Two(ops, a, b)
  BY <1>7, <1>9 DEF Two
<1>12. IsSeq(ops)
  BY <1>6 DEF Runs
<1>13. PICK r3 : r3 = Append(ops, u)
  OBVIOUS
<1>14. /\ q6 # target /\ q7 = q6 + 1 /\ 3 = 2 + 1
       /\ Byte(chunk.code, q6) = Op.MUL /\ Op.MUL \in Binaries
       /\ u = Apply(Op.MUL, a, b)
  BY <1>3, <1>5, Arithmetical
<1>15. Runs(m, q7, w, r3, 3, target)
  BY ONLY <1>14, <1>10, <1>11, <1>12, <1>13, RunsCombine
<1>16. PICK r4 : r4 = Append(r3, d)
  OBVIOUS
<1>17. Runs(m, q10, w, r4, 4, target)
  BY <1>3, <1>5, <1>15, <1>16, RunsLoad
<1>18. r4 = Two(ops, u, d)
  BY <1>13, <1>16 DEF Two
<1>19. IsSeq(ops)
  BY <1>6 DEF Runs
<1>20. PICK r5 : r5 = Append(ops, v)
  OBVIOUS
<1>21. /\ q10 # target /\ q11 = q10 + 1 /\ 5 = 4 + 1
       /\ Byte(chunk.code, q10) = Op.ADD /\ Op.ADD \in Binaries
       /\ v = Apply(Op.ADD, u, d)
  BY <1>3, <1>5, Arithmetical
<1>22. Runs(m, q11, w, r5, 5, target)
  BY ONLY <1>21, <1>17, <1>18, <1>19, <1>20, RunsCombine
<1>23. IsSeq(ops)
  BY <1>6 DEF Runs
<1>24. /\ Peek(r5) = v /\ Drop(r5, 1) = ops
  BY <1>23, <1>20, SeqLonger
<1>25. /\ q11 # target /\ q14 = q11 + 3 /\ 6 = 5 + 1
       /\ Byte(chunk.code, q11) = Op.STORE_LOCAL /\ n \in Nat
       /\ n = UInt16(chunk.code, q11 + 1) /\ LocalBase(m) \in Nat /\ m.top \in Nat
       /\ LocalBase(m) + n < m.top /\ w1 = WriteCells(w, LocalBase(m) + n, <<v>>)
  BY <1>3, <1>5
<1>26. Runs(m, q14, w1, r5, 6, target)
  BY ONLY <1>25, <1>22, <1>24, RunsStore
<1>27. /\ q14 # target /\ target = q14 + 1 /\ 7 = 6 + 1
       /\ Byte(chunk.code, q14) = Op.POP
  BY <1>3, <1>5
<1>28. Runs(m, target, w1, ops, 7, target)
  BY ONLY <1>27, <1>26, <1>23, <1>24, RunsDrop
<1> QED
  BY <1>28

(* What c + a * b comes to.                                                  *)
LEMMA AddOfMulRuns ==
    ASSUME NEW L, NEW V, NEW m, NEW q, NEW w, NEW ops, Here(L, V, m, q, w, ops),
           \A x \in AddOfMul : Byte(chunk.code, q + x[1]) = x[2],
           NEW target, target = q + 15,
           NEW d, d = Cell(w, LocalBase(m) + UInt16(chunk.code, q + 1)),
           NEW a, a = Cell(w, LocalBase(m) + UInt16(chunk.code, q + 4)),
           NEW b, b = Cell(w, LocalBase(m) + UInt16(chunk.code, q + 7)),
           NEW u, u = Apply(Op.MUL, a, b), NEW v, v = Apply(Op.ADD, d, u),
           NEW n \in Nat, n = UInt16(chunk.code, q + 12),
           LocalBase(m) \in Nat, m.top \in Nat, LocalBase(m) + n < m.top,
           NEW w1, w1 = WriteCells(w, LocalBase(m) + n, <<v>>)
    PROVE  Runs(m, target, w1, ops, 7, target)
<1>1. PICK q3, q6, q9, q10, q11, q14 : q3 = q + 3 /\ q6 = q + 6 /\ q9 = q + 9
      /\ q10 = q + 10 /\ q11 = q + 11 /\ q14 = q + 14
  OBVIOUS
<1>2. q \in Nat /\ target = q + 15
  BY DEF Here
<1>3. /\ q \in Nat /\ q + 0 = q /\ q # target /\ q3 # target /\ q6 # target
      /\ q9 # target /\ q10 # target /\ q11 # target /\ q14 # target /\ q3 = q + 3
      /\ q6 = q3 + 3 /\ q3 + 1 = q + 4 /\ q9 = q6 + 3 /\ q6 + 1 = q + 7 /\ q10 = q9 + 1
      /\ q11 = q10 + 1 /\ q14 = q11 + 3 /\ q11 + 1 = q + 12 /\ target = q14 + 1
      /\ 1 = 0 + 1 /\ 2 = 1 + 1 /\ 3 = 2 + 1 /\ 4 = 3 + 1 /\ 5 = 4 + 1 /\ 6 = 5 + 1
      /\ 7 = 6 + 1
  BY ONLY <1>1, <1>2
<1>4. /\ <<0, Op.LOAD_LOCAL>> \in AddOfMul /\ <<3, Op.LOAD_LOCAL>> \in AddOfMul
      /\ <<6, Op.LOAD_LOCAL>> \in AddOfMul /\ <<9, Op.MUL>> \in AddOfMul
      /\ <<10, Op.ADD>> \in AddOfMul /\ <<11, Op.STORE_LOCAL>> \in AddOfMul
      /\ <<14, Op.POP>> \in AddOfMul
  BY DEF AddOfMul
<1>5. /\ Byte(chunk.code, q) = Op.LOAD_LOCAL /\ Byte(chunk.code, q3) = Op.LOAD_LOCAL
      /\ Byte(chunk.code, q6) = Op.LOAD_LOCAL /\ Byte(chunk.code, q9) = Op.MUL
      /\ Byte(chunk.code, q10) = Op.ADD /\ Byte(chunk.code, q11) = Op.STORE_LOCAL
      /\ Byte(chunk.code, q14) = Op.POP
  BY <1>1, <1>3, <1>4, MadeAt
<1>6. Runs(m, q, w, ops, 0, target)
  BY RunsHere
<1>7. PICK r1 : r1 = Append(ops, d)
  OBVIOUS
<1>8. Runs(m, q3, w, r1, 1, target)
  BY <1>3, <1>5, <1>6, <1>7, RunsLoad
<1>9. PICK r2 : r2 = Append(r1, a)
  OBVIOUS
<1>10. Runs(m, q6, w, r2, 2, target)
  BY <1>3, <1>5, <1>8, <1>9, RunsLoad
<1>11. PICK r3 : r3 = Append(r2, b)
  OBVIOUS
<1>12. Runs(m, q9, w, r3, 3, target)
  BY <1>3, <1>5, <1>10, <1>11, RunsLoad
<1>13. r3 = Two(r1, a, b)
  BY <1>9, <1>11 DEF Two
<1>14. IsSeq(r1)
  BY <1>8 DEF Runs
<1>15. PICK r4 : r4 = Append(r1, u)
  OBVIOUS
<1>16. /\ q9 # target /\ q10 = q9 + 1 /\ 4 = 3 + 1
       /\ Byte(chunk.code, q9) = Op.MUL /\ Op.MUL \in Binaries
       /\ u = Apply(Op.MUL, a, b)
  BY <1>3, <1>5, Arithmetical
<1>17. Runs(m, q10, w, r4, 4, target)
  BY ONLY <1>16, <1>12, <1>13, <1>14, <1>15, RunsCombine
<1>18. r4 = Two(ops, d, u)
  BY <1>7, <1>15 DEF Two
<1>19. IsSeq(ops)
  BY <1>6 DEF Runs
<1>20. PICK r5 : r5 = Append(ops, v)
  OBVIOUS
<1>21. /\ q10 # target /\ q11 = q10 + 1 /\ 5 = 4 + 1
       /\ Byte(chunk.code, q10) = Op.ADD /\ Op.ADD \in Binaries
       /\ v = Apply(Op.ADD, d, u)
  BY <1>3, <1>5, Arithmetical
<1>22. Runs(m, q11, w, r5, 5, target)
  BY ONLY <1>21, <1>17, <1>18, <1>19, <1>20, RunsCombine
<1>23. IsSeq(ops)
  BY <1>6 DEF Runs
<1>24. /\ Peek(r5) = v /\ Drop(r5, 1) = ops
  BY <1>23, <1>20, SeqLonger
<1>25. /\ q11 # target /\ q14 = q11 + 3 /\ 6 = 5 + 1
       /\ Byte(chunk.code, q11) = Op.STORE_LOCAL /\ n \in Nat
       /\ n = UInt16(chunk.code, q11 + 1) /\ LocalBase(m) \in Nat /\ m.top \in Nat
       /\ LocalBase(m) + n < m.top /\ w1 = WriteCells(w, LocalBase(m) + n, <<v>>)
  BY <1>3, <1>5
<1>26. Runs(m, q14, w1, r5, 6, target)
  BY ONLY <1>25, <1>22, <1>24, RunsStore
<1>27. /\ q14 # target /\ target = q14 + 1 /\ 7 = 6 + 1
       /\ Byte(chunk.code, q14) = Op.POP
  BY <1>3, <1>5
<1>28. Runs(m, target, w1, ops, 7, target)
  BY ONLY <1>27, <1>26, <1>23, <1>24, RunsDrop
<1> QED
  BY <1>28

LEMMA AddStoreCanonical ==
    ASSUME NEW L, NEW V, VMInv(L, V), Matching(L), FramesAbut, FusedAddStore
    PROVE  AsCanonical
<1>1. At(Op.FUSED_ADD_LOCAL_LOCAL_STORE) /\ Plain /\ opt' = opt
  BY DEF FusedAddStore, Plain
<1>2. Straight(Op.FUSED_ADD_LOCAL_LOCAL_STORE, 0, 0, 7)
  BY StraightTable
<1>3. vm.outcome = "running" /\ Byte(opt.code, vm.ip) = Op.FUSED_ADD_LOCAL_LOCAL_STORE
  BY <1>1, <1>2, Recognised DEF Straight
<1>4. PICK m, q, w, ops : Here(L, V, m, q, w, ops)
  BY <1>3, StartsHere
<1>5. PICK a, b : a = Local(vm, U(1)) /\ b = Local(vm, U(3))
  OBVIOUS
<1>6. PICK v : v = Apply(Op.ADD, a, b)
  OBVIOUS
<1>7. PICK n \in Nat : n = U(5) /\ n < FrameRunning
  BY <1>1, SlotsWritten
<1>8. PICK w1 : w1 = WriteCells(w, LocalBase(m) + n, <<v>>)
  OBVIOUS
<1>9. PICK p : p = vm.ip + 7
  OBVIOUS
<1>10. Flat(p, w1, cache)
  <2>1. Go(SetLocal(vm, n, v), 7, cache)
    BY <1>5, <1>6, <1>7 DEF FusedAddStore
  <2>2. Flat(vm.ip + 7, WriteCells(vm.locals, LocalBase(vm) + n, <<v>>), cache)
    BY <1>1, <1>3, <1>7, <2>1, StoreIsFlat
  <2> QED
    BY <1>4, <1>8, <1>9, <2>2 DEF Here
<1>11. /\ U(1) = UInt16(opt.code, vm.ip + 1) /\ U(3) = UInt16(opt.code, vm.ip + 3)
       /\ U(5) = UInt16(opt.code, vm.ip + 5)
  BY <1>2, <1>3, Operands DEF Straight
<1>12. /\ \A x \in AddStore : Byte(chunk.code, q + x[1]) = x[2]
       /\ U(1) = UInt16(chunk.code, q + 1) /\ U(3) = UInt16(chunk.code, q + 4)
       /\ n = UInt16(chunk.code, q + 8) /\ opt.origin[p] = q + 11
  BY <1>3, <1>4, <1>7, <1>9, <1>11 DEF Here, Before, StandsFor
<1>13. PICK target : target = q + 11
  OBVIOUS
<1>14. /\ a = Cell(w, LocalBase(m) + UInt16(chunk.code, q + 1))
       /\ b = Cell(w, LocalBase(m) + UInt16(chunk.code, q + 4))
  BY <1>4, <1>5, <1>12 DEF Local, Here
<1>15. LocalBase(m) \in Nat /\ m.top \in Nat /\ LocalBase(m) + n < m.top
  BY <1>4, <1>7, SlotBelowTop DEF Here
<1>16. Runs(m, target, w1, ops, 5, target)
  BY <1>4, <1>6, <1>8, <1>12, <1>13, <1>14, <1>15, AddStoreRuns
<1>17. 5 \in 1 .. 20 /\ target = opt.origin[p] /\ ops = Contents(cache)
  BY <1>4, <1>12, <1>13 DEF Here
<1> QED
  BY <1>4, <1>10, <1>16, <1>17, RunLands

(* The sum of a product and another number is the same in both orders.       *)
LEMMA SumEitherWay ==
    ASSUME NEW a, NEW b, NEW d, AsInt(a) \in Int, AsInt(b) \in Int, AsInt(d) \in Int,
           ~IsText(d), NEW u, u = Apply(Op.MUL, a, b)
    PROVE  Apply(Op.ADD, u, d) = Apply(Op.ADD, d, u)
<1>1. PICK x \in Int : x = AsInt(a) * AsInt(b)
  OBVIOUS
<1>2. u = Number(x)
  BY <1>1, OpNumbers DEF Apply
<1>3. ~IsText(u) /\ AsInt(u) = x
  BY <1>2 DEF Number, IsText, AsInt
<1>4. PICK y \in Int : y = AsInt(d)
  OBVIOUS
<1>5. Apply(Op.ADD, u, d) = Number(x + y) /\ Apply(Op.ADD, d, u) = Number(y + x)
  <2>1. ASSUME NEW s, NEW t, ~IsText(s), ~IsText(t)
        PROVE  Apply(Op.ADD, s, t) = Number(AsInt(s) + AsInt(t))
    BY <2>1, OpNumbers DEF Apply
  <2> QED
    BY <1>3, <1>4, <2>1
<1>6. x + y = y + x
  OBVIOUS
<1> QED
  BY <1>5, <1>6

(* FUSED_MUL_ADD_I64 is the one of the two it was made from, unless it adds  *)
(* to a text.                                                                *)
LEMMA MulAddCanonical ==
    ASSUME NEW L, NEW V, VMInv(L, V), Matching(L), FramesAbut, ~Departs, FusedMulAdd
    PROVE  AsCanonical
<1>1. At(Op.FUSED_MUL_ADD_I64) /\ Plain /\ opt' = opt
  BY DEF FusedMulAdd, Plain
<1>2. Straight(Op.FUSED_MUL_ADD_I64, 0, 0, 9)
  BY StraightTable
<1>3. vm.outcome = "running" /\ Byte(opt.code, vm.ip) = Op.FUSED_MUL_ADD_I64
  BY <1>1, <1>2, Recognised DEF Straight
<1>4. PICK m, q, w, ops : Here(L, V, m, q, w, ops)
  BY <1>3, StartsHere
<1>5. PICK a, b, d : a = Local(vm, U(1)) /\ b = Local(vm, U(3)) /\ d = Local(vm, U(5))
  OBVIOUS
<1>6. PICK u : u = Apply(Op.MUL, a, b)
  OBVIOUS
<1>7. PICK v : v = Apply(Op.ADD, u, d)
  OBVIOUS
<1>8. PICK n \in Nat : n = U(7) /\ n < FrameRunning
  BY <1>1, SlotsWritten
<1>9. PICK w1 : w1 = WriteCells(w, LocalBase(m) + n, <<v>>)
  OBVIOUS
<1>10. PICK p : p = vm.ip + 9
  OBVIOUS
<1>11. Flat(p, w1, cache)
  <2>1. Go(SetLocal(vm, n, v), 9, cache)
    BY <1>5, <1>6, <1>7, <1>8 DEF FusedMulAdd
  <2>2. Flat(vm.ip + 9, WriteCells(vm.locals, LocalBase(vm) + n, <<v>>), cache)
    BY <1>1, <1>3, <1>8, <2>1, StoreIsFlat
  <2> QED
    BY <1>4, <1>9, <1>10, <2>2 DEF Here
<1>12. /\ U(1) = UInt16(opt.code, vm.ip + 1) /\ U(3) = UInt16(opt.code, vm.ip + 3)
       /\ U(5) = UInt16(opt.code, vm.ip + 5) /\ U(7) = UInt16(opt.code, vm.ip + 7)
  BY <1>2, <1>3, Operands DEF Straight
<1>13. StandsFor(chunk, opt, vm.ip) /\ q = opt.origin[vm.ip]
  BY <1>4 DEF Here, Before
<1>14. /\ opt.origin[p] = q + 15 /\ n = UInt16(chunk.code, q + 12)
       /\ \/ /\ \A x \in MulThenAdd : Byte(chunk.code, q + x[1]) = x[2]
             /\ U(1) = UInt16(chunk.code, q + 1) /\ U(3) = UInt16(chunk.code, q + 4)
             /\ U(5) = UInt16(chunk.code, q + 8)
          \/ /\ \A x \in AddOfMul : Byte(chunk.code, q + x[1]) = x[2]
             /\ U(1) = UInt16(chunk.code, q + 4) /\ U(3) = UInt16(chunk.code, q + 7)
             /\ U(5) = UInt16(chunk.code, q + 1)
  BY <1>3, <1>8, <1>10, <1>12, <1>13 DEF StandsFor
<1>15. PICK target : target = q + 15
  OBVIOUS
<1>16. LocalBase(m) \in Nat /\ m.top \in Nat /\ LocalBase(m) + n < m.top
  BY <1>4, <1>8, SlotBelowTop DEF Here
<1>17. \A k : Local(vm, k) = Cell(w, LocalBase(m) + k)
  BY <1>4 DEF Local, Here
<1>18. Runs(m, target, w1, ops, 7, target)
  <2>1. CASE /\ \A x \in MulThenAdd : Byte(chunk.code, q + x[1]) = x[2]
             /\ U(1) = UInt16(chunk.code, q + 1) /\ U(3) = UInt16(chunk.code, q + 4)
             /\ U(5) = UInt16(chunk.code, q + 8)
    <3>1. /\ a = Cell(w, LocalBase(m) + UInt16(chunk.code, q + 1))
          /\ b = Cell(w, LocalBase(m) + UInt16(chunk.code, q + 4))
          /\ d = Cell(w, LocalBase(m) + UInt16(chunk.code, q + 8))
      BY <1>5, <1>17, <2>1
    <3> QED
      BY <1>4, <1>6, <1>7, <1>9, <1>14, <1>15, <1>16, <2>1, <3>1, MulThenAddRuns
  <2>2. CASE /\ \A x \in AddOfMul : Byte(chunk.code, q + x[1]) = x[2]
             /\ U(1) = UInt16(chunk.code, q + 4) /\ U(3) = UInt16(chunk.code, q + 7)
             /\ U(5) = UInt16(chunk.code, q + 1)
    <3>1. /\ d = Cell(w, LocalBase(m) + UInt16(chunk.code, q + 1))
          /\ a = Cell(w, LocalBase(m) + UInt16(chunk.code, q + 4))
          /\ b = Cell(w, LocalBase(m) + UInt16(chunk.code, q + 7))
      BY <1>5, <1>17, <2>2
    <3>2. AsInt(a) \in Int /\ AsInt(b) \in Int /\ AsInt(d) \in Int
      <4>1. a \in V /\ b \in V /\ d \in V
        BY <1>5, Untouched
      <4> QED
        BY <4>1, HasNumber
    <3>3. ~IsText(d)
      <4>1. PICK q6 : q6 = q + 6
        OBVIOUS
      <4>2. <<6, Op.LOAD_LOCAL>> \in AddOfMul
        BY DEF AddOfMul
      <4>3. Byte(chunk.code, q6) = Op.LOAD_LOCAL
        BY <2>2, <4>1, <4>2, MadeAt
      <4>4. Op.LOAD_LOCAL # Op.MUL
        BY OpNumbers
      <4>5. op = Op.FUSED_MUL_ADD_I64
        BY <1>1 DEF At
      <4> QED
        BY <1>3, <1>5, <1>13, <4>1, <4>3, <4>4, <4>5 DEF Departs, Origin
    <3>4. v = Apply(Op.ADD, d, u)
      BY <1>6, <1>7, <3>2, <3>3, SumEitherWay
    <3> QED
      BY <1>4, <1>6, <1>9, <1>14, <1>15, <1>16, <2>2, <3>1, <3>4, AddOfMulRuns
  <2> QED
    BY <1>14, <2>1, <2>2
<1>19. 7 \in 1 .. 20 /\ target = opt.origin[p] /\ ops = Contents(cache)
  BY <1>4, <1>14, <1>15 DEF Here
<1> QED
  BY <1>4, <1>11, <1>18, <1>19, RunLands

(* What the four instructions of x = x + c come to.                          *)
LEMMA IncrementRuns ==
    ASSUME NEW L, NEW V, NEW m, NEW q, NEW w, NEW ops, Here(L, V, m, q, w, ops),
           \A x \in Increment : Byte(chunk.code, q + x[1]) = x[2],
           NEW target, target = q + 16,
           NEW a, a = Cell(w, LocalBase(m) + UInt16(chunk.code, q + 1)),
           NEW b, b = Number(Int64(chunk.code, q + 4)),
           NEW v, v = Apply(Op.ADD, a, b),
           NEW n \in Nat, n = UInt16(chunk.code, q + 14),
           LocalBase(m) \in Nat, m.top \in Nat, LocalBase(m) + n < m.top,
           NEW w1, w1 = WriteCells(w, LocalBase(m) + n, <<v>>), NEW ops1, ops1 = Append(ops, v)
    PROVE  Runs(m, target, w1, ops1, 4, target)
<1>1. PICK q3, q12, q13 : q3 = q + 3 /\ q12 = q + 12 /\ q13 = q + 13
  OBVIOUS
<1>2. q \in Nat /\ target = q + 16
  BY DEF Here
<1>3. /\ q \in Nat /\ q + 0 = q /\ q # target /\ q3 # target /\ q12 # target
      /\ q13 # target /\ q3 = q + 3 /\ q12 = q3 + 9 /\ q3 + 1 = q + 4 /\ q13 = q12 + 1
      /\ target = q13 + 3 /\ q13 + 1 = q + 14 /\ 1 = 0 + 1 /\ 2 = 1 + 1 /\ 3 = 2 + 1
      /\ 4 = 3 + 1
  BY ONLY <1>1, <1>2
<1>4. /\ <<0, Op.LOAD_LOCAL>> \in Increment /\ <<3, Op.PUSH_INT>> \in Increment
      /\ <<12, Op.ADD>> \in Increment /\ <<13, Op.STORE_LOCAL>> \in Increment
  BY DEF Increment
<1>5. /\ Byte(chunk.code, q) = Op.LOAD_LOCAL /\ Byte(chunk.code, q3) = Op.PUSH_INT
      /\ Byte(chunk.code, q12) = Op.ADD /\ Byte(chunk.code, q13) = Op.STORE_LOCAL
  BY <1>1, <1>3, <1>4, MadeAt
<1>6. Runs(m, q, w, ops, 0, target)
  BY RunsHere
<1>7. PICK r1 : r1 = Append(ops, a)
  OBVIOUS
<1>8. Runs(m, q3, w, r1, 1, target)
  BY <1>3, <1>5, <1>6, <1>7, RunsLoad
<1>9. PICK r2 : r2 = Append(r1, b)
  OBVIOUS
<1>10. Runs(m, q12, w, r2, 2, target)
  BY <1>3, <1>5, <1>8, <1>9, RunsPush
<1>11. r2 = Two(ops, a, b)
  BY <1>7, <1>9 DEF Two
<1>12. IsSeq(ops)
  BY <1>6 DEF Runs
<1>13. PICK r3 : r3 = Append(ops, v)
  OBVIOUS
<1>14. /\ q12 # target /\ q13 = q12 + 1 /\ 3 = 2 + 1
       /\ Byte(chunk.code, q12) = Op.ADD /\ Op.ADD \in Binaries
       /\ v = Apply(Op.ADD, a, b)
  BY <1>3, <1>5, Arithmetical
<1>15. Runs(m, q13, w, r3, 3, target)
  BY ONLY <1>14, <1>10, <1>11, <1>12, <1>13, RunsCombine
<1>16. IsSeq(ops)
  BY <1>6 DEF Runs
<1>17. /\ Peek(r3) = v /\ Drop(r3, 1) = ops
  BY <1>16, <1>13, SeqLonger
<1>18. /\ q13 # target /\ target = q13 + 3 /\ 4 = 3 + 1
       /\ Byte(chunk.code, q13) = Op.STORE_LOCAL /\ n \in Nat
       /\ n = UInt16(chunk.code, q13 + 1) /\ LocalBase(m) \in Nat /\ m.top \in Nat
       /\ LocalBase(m) + n < m.top /\ w1 = WriteCells(w, LocalBase(m) + n, <<v>>)
  BY <1>3, <1>5
<1>19. Runs(m, target, w1, r3, 4, target)
  BY ONLY <1>18, <1>15, <1>17, RunsStore
<1> QED
  BY <1>19, <1>13

(* Where canonical instructions lead to such a state but for a value that    *)
(* they leave on the stack.                                                  *)
LEMMA LandsWithValue ==
    ASSUME NEW L, NEW V, NEW m, NEW q, NEW w, NEW ops, Here(L, V, m, q, w, ops),
           op = Op.INCR_LOCAL_IMM, NEW p, NEW w1, Flat(p, w1, cache),
           NEW target, target = opt.origin[p], NEW n \in 1 .. 20, NEW v,
           NEW ops1, ops1 = Append(ops, v), Runs(m, target, w1, ops1, n, target)
    PROVE  AsCanonical
<1>1. /\ Before(L, V, m, q) /\ ops = Contents(cache) /\ IsSeq(ops) /\ m = Meaning
      /\ IsMachine(m) /\ DOMAIN m = SyncedFields /\ m.outcome = "running"
  BY DEF Here, Before, IsSeq
<1>2. PICK s : s = At3(m, target, w1, ops1)
  OBVIOUS
<1>3. Leads(m, s, n, target)
  BY <1>2 DEF Runs, Run
<1>4. /\ DOMAIN s = SyncedFields /\ s.ip = target /\ s.locals = w1 /\ s.ops = ops1
      /\ s.top = m.top /\ s.calls = m.calls /\ s.tries = m.tries /\ s.heap = m.heap
      /\ s.out = m.out /\ s.outcome = m.outcome
  BY ONLY <1>1, <1>2, MovedState
<1>5. RunTo(m, target) = s
  <2>1. RunTo(m, target) = Ended(s)
    BY <1>3, <1>4, RunsThere
  <2> QED
    BY <1>1, <1>4, <2>1 DEF Ended
<1>6. PICK t : t = At3(m, target, w1, ops)
  OBVIOUS
<1>7. /\ DOMAIN t = SyncedFields /\ t.ip = target /\ t.locals = w1 /\ t.ops = ops
      /\ t.top = m.top /\ t.calls = m.calls /\ t.tries = m.tries /\ t.heap = m.heap
      /\ t.out = m.out /\ t.outcome = m.outcome
  BY <1>1, <1>6, MovedState
<1>8. Means(t, opt.origin, vm', cache')
  <2>1. t = At3(m, opt.origin[vm'.ip], vm'.locals, Contents(cache'))
    BY <1>1, <1>6 DEF Flat
  <2> QED
    BY <1>1, <2>1, Settles DEF Flat
<1>9. PICK m1 : m1 = Meaning'
  OBVIOUS
<1>10. m1 = t
  <2>1. Means(m1, opt.origin, vm', cache')
    BY <1>9, MeaningMeansNext DEF Flat
  <2> QED
    BY <1>8, <2>1, SameMeaning
<1>11. s = [m1 EXCEPT !.ops = Append(@, Peek(s.ops))]
  <2>1. Peek(s.ops) = v
    BY <1>1, <1>4, SeqLonger
  <2>2. PICK u : u = [m1 EXCEPT !.ops = ops1]
    OBVIOUS
  <2>3. u = [m1 EXCEPT !.ops = Append(@, Peek(s.ops))]
    BY <1>7, <1>10, <2>1, <2>2
  <2>4. IsMachine(s) /\ IsMachine(t)
    BY <1>1, <1>2, <1>6, MovedIs
  <2>5. "ops" \in SyncedFields
    BY DEF SyncedFields
  <2>6. IsMachine(u)
    BY <1>10, <2>2, <2>4, <2>5, ChangedIs
  <2>7. /\ u.ops = ops1 /\ u.ip = t.ip /\ u.locals = t.locals /\ u.top = t.top
        /\ u.calls = t.calls /\ u.tries = t.tries /\ u.heap = t.heap /\ u.out = t.out
        /\ u.outcome = t.outcome
    BY <1>7, <1>10, <2>2 DEF SyncedFields, VMFields
  <2>8. s = u
    BY ONLY <1>4, <1>7, <2>4, <2>6, <2>7, SameMachine
  <2> QED
    BY <2>3, <2>8
<1>12. RunTo(Meaning, Meaning'.ip) = s
  BY <1>1, <1>5, <1>7, <1>9, <1>10
<1> QED
  BY <1>9, <1>11, <1>12 DEF AsCanonical, SameUpTo

LEMMA IncrLocalImmCanonical ==
    ASSUME NEW L, NEW V, VMInv(L, V), Matching(L), FramesAbut, IncrLocalImm
    PROVE  AsCanonical
<1>1. At(Op.INCR_LOCAL_IMM) /\ Plain /\ opt' = opt /\ op = Op.INCR_LOCAL_IMM
  BY DEF IncrLocalImm, Plain, At
<1>2. Straight(Op.INCR_LOCAL_IMM, 0, 0, 5)
  BY StraightTable
<1>3. vm.outcome = "running" /\ Byte(opt.code, vm.ip) = Op.INCR_LOCAL_IMM
  BY <1>1, <1>2, Recognised DEF Straight
<1>4. PICK m, q, w, ops : Here(L, V, m, q, w, ops)
  BY <1>3, StartsHere
<1>5. PICK a, b : a = Local(vm, U(1)) /\ b = Number(S(3))
  OBVIOUS
<1>6. PICK v : v = Apply(Op.ADD, a, b)
  OBVIOUS
<1>7. PICK n \in Nat : n = U(1) /\ n < FrameRunning
  BY <1>1, SlotsWritten
<1>8. PICK w1 : w1 = WriteCells(w, LocalBase(m) + n, <<v>>)
  OBVIOUS
<1>9. PICK p : p = vm.ip + 5
  OBVIOUS
<1>10. Flat(p, w1, cache)
  <2>1. Go(SetLocal(vm, n, v), 5, cache)
    BY <1>5, <1>6, <1>7 DEF IncrLocalImm
  <2>2. Flat(vm.ip + 5, WriteCells(vm.locals, LocalBase(vm) + n, <<v>>), cache)
    BY <1>1, <1>3, <1>7, <2>1, StoreIsFlat
  <2> QED
    BY <1>4, <1>8, <1>9, <2>2 DEF Here
<1>11. U(1) = UInt16(opt.code, vm.ip + 1) /\ S(3) = Int16(opt.code, vm.ip + 3)
  BY <1>2, <1>3, Operands DEF Straight
<1>12. /\ \A x \in Increment : Byte(chunk.code, q + x[1]) = x[2]
       /\ U(1) = UInt16(chunk.code, q + 1) /\ n = UInt16(chunk.code, q + 14)
       /\ S(3) = Int64(chunk.code, q + 4) /\ opt.origin[p] = q + 16
  BY <1>3, <1>4, <1>7, <1>9, <1>11 DEF Here, Before, StandsFor
<1>13. PICK target : target = q + 16
  OBVIOUS
<1>14. /\ a = Cell(w, LocalBase(m) + UInt16(chunk.code, q + 1))
       /\ b = Number(Int64(chunk.code, q + 4))
  BY <1>4, <1>5, <1>12 DEF Local, Here
<1>15. LocalBase(m) \in Nat /\ m.top \in Nat /\ LocalBase(m) + n < m.top
  BY <1>4, <1>7, SlotBelowTop DEF Here
<1>16. PICK ops1 : ops1 = Append(ops, v)
  OBVIOUS
<1>17. Runs(m, target, w1, ops1, 4, target)
  BY <1>4, <1>6, <1>8, <1>12, <1>13, <1>14, <1>15, <1>16, IncrementRuns
<1>18. 4 \in 1 .. 20 /\ target = opt.origin[p]
  BY <1>12, <1>13
<1> QED
  BY <1>1, <1>4, <1>10, <1>16, <1>17, <1>18, LandsWithValue

(* The comparisons of a range's condition, and what is made of them.         *)
Yes == Bool(TRUE)
No  == Bool(FALSE)

LEMMA Conditions ==
    /\ Yes # No /\ AsBool(Yes) /\ ~AsBool(No)
    /\ \A a, b \in {Yes, No} :
          /\ Apply(Op.TERNARY_MIN, a, b) = IF a = Yes /\ b = Yes THEN Yes ELSE No
          /\ Apply(Op.TERNARY_MAX, a, b) = IF a = Yes \/ b = Yes THEN Yes ELSE No
    /\ \A a, b : /\ Apply(Op.LT, a, b) = IF AsInt(a) < AsInt(b) THEN Yes ELSE No
                 /\ Apply(Op.GT, a, b) = IF AsInt(a) > AsInt(b) THEN Yes ELSE No
<1>1. Yes = <<"bool", 1>> /\ No = <<"bool", 0>>
  BY DEF Yes, No, Bool
<1>2. AsInt(Yes) = 1 /\ AsInt(No) = 0 /\ Yes # No
  BY <1>1 DEF AsInt
<1>3. AsBool(Yes) /\ ~AsBool(No)
  BY <1>1, <1>2 DEF AsBool, IsObj
<1>4. ASSUME NEW a \in {Yes, No}, NEW b \in {Yes, No}
      PROVE  /\ Apply(Op.TERNARY_MIN, a, b) = IF a = Yes /\ b = Yes THEN Yes ELSE No
             /\ Apply(Op.TERNARY_MAX, a, b) = IF a = Yes \/ b = Yes THEN Yes ELSE No
  <2>1. a[1] = "bool" /\ b[1] = "bool"
    BY <1>1
  <2>2. Bool(1 # 0) = Yes /\ Bool(0 # 0) = No
    BY DEF Bool, Yes, No
  <2>3. \A n : MinMax(n, a, b) = Bool(n # 0)
    BY <2>1 DEF MinMax
  <2>4. MinMax(1, a, b) = Yes /\ MinMax(0, a, b) = No
    BY <2>2, <2>3
  <2>5. /\ Apply(Op.TERNARY_MIN, a, b) =
               MinMax(IF AsInt(a) < AsInt(b) THEN AsInt(a) ELSE AsInt(b), a, b)
        /\ Apply(Op.TERNARY_MAX, a, b) =
               MinMax(IF AsInt(a) > AsInt(b) THEN AsInt(a) ELSE AsInt(b), a, b)
    BY OpNumbers DEF Apply
  <2>6. CASE a = Yes /\ b = Yes
    BY <1>2, <2>4, <2>5, <2>6
  <2>7. CASE a = Yes /\ b = No
    BY <1>2, <2>4, <2>5, <2>7
  <2>8. CASE a = No /\ b = Yes
    BY <1>2, <2>4, <2>5, <2>8
  <2>9. CASE a = No /\ b = No
    BY <1>2, <2>4, <2>5, <2>9
  <2> QED
    BY <2>6, <2>7, <2>8, <2>9
<1>5. ASSUME NEW a, NEW b
      PROVE  /\ Apply(Op.LT, a, b) = IF AsInt(a) < AsInt(b) THEN Yes ELSE No
             /\ Apply(Op.GT, a, b) = IF AsInt(a) > AsInt(b) THEN Yes ELSE No
  <2>1. Apply(Op.LT, a, b) = Bool(AsInt(a) < AsInt(b))
    BY OpNumbers DEF Apply
  <2>2. Apply(Op.GT, a, b) = Bool(AsInt(a) > AsInt(b))
    BY OpNumbers DEF Apply
  <2> QED
    BY <2>1, <2>2 DEF Bool, Yes, No
<1> QED
  BY <1>2, <1>3, <1>4, <1>5

(* The condition the canonical code of a range computes, a step of zero      *)
(* aside.                                                                    *)
LEMMA RangeCondition ==
    ASSUME NEW st, NEW z, NEW va, NEW to, z = Number(0), NEW s \in Int, s = AsInt(st),
           NEW x \in Int, x = AsInt(va), NEW y \in Int, y = AsInt(to), s # 0,
           NEW c1, c1 = Apply(Op.GT, st, z), NEW c2, c2 = Apply(Op.LT, va, to),
           NEW c3, c3 = Apply(Op.TERNARY_MIN, c1, c2), NEW c4, c4 = Apply(Op.LT, st, z),
           NEW c5, c5 = Apply(Op.GT, va, to), NEW c6, c6 = Apply(Op.TERNARY_MIN, c4, c5),
           NEW c7, c7 = Apply(Op.TERNARY_MAX, c3, c6)
    PROVE  AsBool(c7) <=> IF s > 0 THEN x < y ELSE x > y
<1>1. AsInt(z) = 0
  BY DEF AsInt, Number
<1>2. c1 = (IF s > 0 THEN Yes ELSE No) /\ c4 = (IF s < 0 THEN Yes ELSE No)
  <2>1. c1 = (IF AsInt(st) > AsInt(z) THEN Yes ELSE No)
    BY Conditions
  <2>2. c4 = (IF AsInt(st) < AsInt(z) THEN Yes ELSE No)
    BY Conditions
  <2> QED
    BY <1>1, <2>1, <2>2
<1>3. c2 = (IF x < y THEN Yes ELSE No) /\ c5 = (IF x > y THEN Yes ELSE No)
  BY Conditions
<1>4. c1 \in {Yes, No} /\ c2 \in {Yes, No} /\ c4 \in {Yes, No} /\ c5 \in {Yes, No}
  BY ONLY <1>2, <1>3
<1>5. c3 = (IF c1 = Yes /\ c2 = Yes THEN Yes ELSE No)
  BY <1>4, Conditions
<1>6. c6 = (IF c4 = Yes /\ c5 = Yes THEN Yes ELSE No)
  BY <1>4, Conditions
<1>7. c3 \in {Yes, No} /\ c6 \in {Yes, No}
  BY ONLY <1>5, <1>6
<1>8. c7 = (IF c3 = Yes \/ c6 = Yes THEN Yes ELSE No)
  BY <1>7, Conditions
<1>9. /\ Yes # No /\ AsBool(Yes) /\ ~AsBool(No)
  BY Conditions
<1>10. s \in Int /\ s # 0
  OBVIOUS
<1>11. CASE s > 0
  <2>1. c1 = Yes /\ c4 = No
    BY ONLY <1>2, <1>10, <1>11
  <2> QED
    BY ONLY <1>3, <1>5, <1>6, <1>8, <1>9, <1>11, <2>1
<1>12. CASE ~(s > 0)
  <2>1. c1 = No /\ c4 = Yes
    BY ONLY <1>2, <1>10, <1>12
  <2> QED
    BY ONLY <1>3, <1>5, <1>6, <1>8, <1>9, <1>12, <2>1
<1> QED
  BY <1>11, <1>12

(* What an instruction at ip loads or pushes, its operand being at k.        *)
Loaded(m, w, k, v) == v = Cell(w, LocalBase(m) + UInt16(chunk.code, k))
Pushed(k, v)       == v = Number(Int64(chunk.code, k))

LEMMA RunsLoadOf ==
    ASSUME NEW m, NEW ip, NEW w, NEW ops, NEW n, NEW target, Runs(m, ip, w, ops, n, target),
           ip # target, Byte(chunk.code, ip) = Op.LOAD_LOCAL,
           NEW v, Loaded(m, w, ip + 1, v),
           NEW ip1, ip1 = ip + 3, NEW n1, n1 = n + 1
    PROVE  Runs(m, ip1, w, Append(ops, v), n1, target)
BY RunsLoad DEF Loaded

LEMMA RunsPushOf ==
    ASSUME NEW m, NEW ip, NEW w, NEW ops, NEW n, NEW target, Runs(m, ip, w, ops, n, target),
           ip # target, Byte(chunk.code, ip) = Op.PUSH_INT,
           NEW v, Pushed(ip + 1, v),
           NEW ip1, ip1 = ip + 9, NEW n1, n1 = n + 1
    PROVE  Runs(m, ip1, w, Append(ops, v), n1, target)
BY RunsPush DEF Pushed

(* What the sixteen instructions of a range's header come to.                *)
LEMMA LoopHeaderRuns ==
    ASSUME NEW L, NEW V, NEW m, NEW q, NEW w, NEW ops, Here(L, V, m, q, w, ops),
           \A x \in LoopHeader : Byte(chunk.code, q + x[1]) = x[2],
           NEW target \in Nat, target >= q + 46,
           NEW st, Loaded(m, w, q + 1, st),
           Loaded(m, w, q + 22, st),
           NEW z, Pushed(q + 4, z), Pushed(q + 25, z),
           NEW va, Loaded(m, w, q + 14, va),
           Loaded(m, w, q + 35, va),
           NEW to, Loaded(m, w, q + 17, to),
           Loaded(m, w, q + 38, to),
           NEW c1, c1 = Apply(Op.GT, st, z), NEW c2, c2 = Apply(Op.LT, va, to),
           NEW c3, c3 = Apply(Op.TERNARY_MIN, c1, c2), NEW c4, c4 = Apply(Op.LT, st, z),
           NEW c5, c5 = Apply(Op.GT, va, to), NEW c6, c6 = Apply(Op.TERNARY_MIN, c4, c5),
           NEW c7, c7 = Apply(Op.TERNARY_MAX, c3, c6),
           target = q + 46 + (IF AsBool(c7) THEN 0 ELSE Int16(chunk.code, q + 44))
    PROVE  Runs(m, target, w, ops, 16, target)
<1>1. PICK q3, q12, q13, q16, q19, q20, q21, q24, q33, q34, q37, q40, q41, q42, q43 : q3 = q + 3
      /\ q12 = q + 12 /\ q13 = q + 13 /\ q16 = q + 16 /\ q19 = q + 19 /\ q20 = q + 20
      /\ q21 = q + 21 /\ q24 = q + 24 /\ q33 = q + 33 /\ q34 = q + 34 /\ q37 = q + 37
      /\ q40 = q + 40 /\ q41 = q + 41 /\ q42 = q + 42 /\ q43 = q + 43
  OBVIOUS
<1>2. q \in Nat /\ target \in Nat /\ target >= q + 46
  BY DEF Here
<1>3. /\ q \in Nat /\ q + 0 = q /\ q # target /\ q3 # target /\ q12 # target
      /\ q13 # target /\ q16 # target /\ q19 # target /\ q20 # target /\ q21 # target
      /\ q24 # target /\ q33 # target /\ q34 # target /\ q37 # target /\ q40 # target
      /\ q41 # target /\ q42 # target /\ q43 # target /\ q3 = q + 3 /\ q + 1 = q + 1
      /\ q12 = q3 + 9 /\ q3 + 1 = q + 4 /\ q13 = q12 + 1 /\ q16 = q13 + 3
      /\ q13 + 1 = q + 14 /\ q19 = q16 + 3 /\ q16 + 1 = q + 17 /\ q20 = q19 + 1
      /\ q21 = q20 + 1 /\ q24 = q21 + 3 /\ q21 + 1 = q + 22 /\ q33 = q24 + 9
      /\ q24 + 1 = q + 25 /\ q34 = q33 + 1 /\ q37 = q34 + 3 /\ q34 + 1 = q + 35
      /\ q40 = q37 + 3 /\ q37 + 1 = q + 38 /\ q41 = q40 + 1 /\ q42 = q41 + 1
      /\ q43 = q42 + 1 /\ q43 + 1 = q + 44 /\ 1 = 0 + 1 /\ 2 = 1 + 1 /\ 3 = 2 + 1
      /\ 4 = 3 + 1 /\ 5 = 4 + 1 /\ 6 = 5 + 1 /\ 7 = 6 + 1 /\ 8 = 7 + 1 /\ 9 = 8 + 1
      /\ 10 = 9 + 1 /\ 11 = 10 + 1 /\ 12 = 11 + 1 /\ 13 = 12 + 1 /\ 14 = 13 + 1
      /\ 15 = 14 + 1 /\ 16 = 15 + 1
  BY ONLY <1>1, <1>2
<1>4. /\ <<0, Op.LOAD_LOCAL>> \in LoopHeader /\ <<3, Op.PUSH_INT>> \in LoopHeader
      /\ <<12, Op.GT>> \in LoopHeader /\ <<13, Op.LOAD_LOCAL>> \in LoopHeader
      /\ <<16, Op.LOAD_LOCAL>> \in LoopHeader /\ <<19, Op.LT>> \in LoopHeader
      /\ <<20, Op.TERNARY_MIN>> \in LoopHeader /\ <<21, Op.LOAD_LOCAL>> \in LoopHeader
      /\ <<24, Op.PUSH_INT>> \in LoopHeader /\ <<33, Op.LT>> \in LoopHeader
      /\ <<34, Op.LOAD_LOCAL>> \in LoopHeader /\ <<37, Op.LOAD_LOCAL>> \in LoopHeader
      /\ <<40, Op.GT>> \in LoopHeader /\ <<41, Op.TERNARY_MIN>> \in LoopHeader
      /\ <<42, Op.TERNARY_MAX>> \in LoopHeader /\ <<43, Op.JUMP_IF_FALSE>> \in LoopHeader
  BY DEF LoopHeader
<1>5. /\ Byte(chunk.code, q) = Op.LOAD_LOCAL /\ Byte(chunk.code, q3) = Op.PUSH_INT
      /\ Byte(chunk.code, q12) = Op.GT /\ Byte(chunk.code, q13) = Op.LOAD_LOCAL
      /\ Byte(chunk.code, q16) = Op.LOAD_LOCAL /\ Byte(chunk.code, q19) = Op.LT
      /\ Byte(chunk.code, q20) = Op.TERNARY_MIN /\ Byte(chunk.code, q21) = Op.LOAD_LOCAL
      /\ Byte(chunk.code, q24) = Op.PUSH_INT /\ Byte(chunk.code, q33) = Op.LT
      /\ Byte(chunk.code, q34) = Op.LOAD_LOCAL /\ Byte(chunk.code, q37) = Op.LOAD_LOCAL
      /\ Byte(chunk.code, q40) = Op.GT /\ Byte(chunk.code, q41) = Op.TERNARY_MIN
      /\ Byte(chunk.code, q42) = Op.TERNARY_MAX
      /\ Byte(chunk.code, q43) = Op.JUMP_IF_FALSE
  BY <1>1, <1>3, <1>4, MadeAt
<1>6. Runs(m, q, w, ops, 0, target)
  BY RunsHere
<1>7. PICK r1 : r1 = Append(ops, st)
  OBVIOUS
<1>8. /\ Loaded(m, w, q + 1, st) /\ q # target /\ q3 = q + 3 /\ 1 = 0 + 1
      /\ Byte(chunk.code, q) = Op.LOAD_LOCAL
  BY <1>3, <1>5
<1>9. Runs(m, q3, w, r1, 1, target)
  BY ONLY <1>8, <1>6, <1>7, RunsLoadOf
<1>10. PICK r2 : r2 = Append(r1, z)
  OBVIOUS
<1>11. /\ Pushed(q3 + 1, z) /\ q3 # target /\ q12 = q3 + 9 /\ 2 = 1 + 1
       /\ Byte(chunk.code, q3) = Op.PUSH_INT
  BY <1>3, <1>5
<1>12. Runs(m, q12, w, r2, 2, target)
  BY ONLY <1>11, <1>9, <1>10, RunsPushOf
<1>13. r2 = Two(ops, st, z)
  BY <1>7, <1>10 DEF Two
<1>14. IsSeq(ops)
  BY <1>6 DEF Runs
<1>15. PICK r3 : r3 = Append(ops, c1)
  OBVIOUS
<1>16. /\ q12 # target /\ q13 = q12 + 1 /\ 3 = 2 + 1
       /\ Byte(chunk.code, q12) = Op.GT /\ Op.GT \in Binaries
       /\ c1 = Apply(Op.GT, st, z)
  BY <1>3, <1>5, Arithmetical
<1>17. Runs(m, q13, w, r3, 3, target)
  BY ONLY <1>16, <1>12, <1>13, <1>14, <1>15, RunsCombine
<1>18. PICK r4 : r4 = Append(r3, va)
  OBVIOUS
<1>19. /\ Loaded(m, w, q13 + 1, va) /\ q13 # target /\ q16 = q13 + 3 /\ 4 = 3 + 1
       /\ Byte(chunk.code, q13) = Op.LOAD_LOCAL
  BY <1>3, <1>5
<1>20. Runs(m, q16, w, r4, 4, target)
  BY ONLY <1>19, <1>17, <1>18, RunsLoadOf
<1>21. PICK r5 : r5 = Append(r4, to)
  OBVIOUS
<1>22. /\ Loaded(m, w, q16 + 1, to) /\ q16 # target /\ q19 = q16 + 3 /\ 5 = 4 + 1
       /\ Byte(chunk.code, q16) = Op.LOAD_LOCAL
  BY <1>3, <1>5
<1>23. Runs(m, q19, w, r5, 5, target)
  BY ONLY <1>22, <1>20, <1>21, RunsLoadOf
<1>24. r5 = Two(r3, va, to)
  BY <1>18, <1>21 DEF Two
<1>25. IsSeq(r3)
  BY <1>17 DEF Runs
<1>26. PICK r6 : r6 = Append(r3, c2)
  OBVIOUS
<1>27. /\ q19 # target /\ q20 = q19 + 1 /\ 6 = 5 + 1
       /\ Byte(chunk.code, q19) = Op.LT /\ Op.LT \in Binaries
       /\ c2 = Apply(Op.LT, va, to)
  BY <1>3, <1>5, Arithmetical
<1>28. Runs(m, q20, w, r6, 6, target)
  BY ONLY <1>27, <1>23, <1>24, <1>25, <1>26, RunsCombine
<1>29. r6 = Two(ops, c1, c2)
  BY <1>15, <1>26 DEF Two
<1>30. IsSeq(ops)
  BY <1>6 DEF Runs
<1>31. PICK r7 : r7 = Append(ops, c3)
  OBVIOUS
<1>32. /\ q20 # target /\ q21 = q20 + 1 /\ 7 = 6 + 1
       /\ Byte(chunk.code, q20) = Op.TERNARY_MIN /\ Op.TERNARY_MIN \in Binaries
       /\ c3 = Apply(Op.TERNARY_MIN, c1, c2)
  BY <1>3, <1>5, Arithmetical
<1>33. Runs(m, q21, w, r7, 7, target)
  BY ONLY <1>32, <1>28, <1>29, <1>30, <1>31, RunsCombine
<1>34. PICK r8 : r8 = Append(r7, st)
  OBVIOUS
<1>35. /\ Loaded(m, w, q21 + 1, st) /\ q21 # target /\ q24 = q21 + 3 /\ 8 = 7 + 1
       /\ Byte(chunk.code, q21) = Op.LOAD_LOCAL
  BY <1>3, <1>5
<1>36. Runs(m, q24, w, r8, 8, target)
  BY ONLY <1>35, <1>33, <1>34, RunsLoadOf
<1>37. PICK r9 : r9 = Append(r8, z)
  OBVIOUS
<1>38. /\ Pushed(q24 + 1, z) /\ q24 # target /\ q33 = q24 + 9 /\ 9 = 8 + 1
       /\ Byte(chunk.code, q24) = Op.PUSH_INT
  BY <1>3, <1>5
<1>39. Runs(m, q33, w, r9, 9, target)
  BY ONLY <1>38, <1>36, <1>37, RunsPushOf
<1>40. r9 = Two(r7, st, z)
  BY <1>34, <1>37 DEF Two
<1>41. IsSeq(r7)
  BY <1>33 DEF Runs
<1>42. PICK r10 : r10 = Append(r7, c4)
  OBVIOUS
<1>43. /\ q33 # target /\ q34 = q33 + 1 /\ 10 = 9 + 1
       /\ Byte(chunk.code, q33) = Op.LT /\ Op.LT \in Binaries
       /\ c4 = Apply(Op.LT, st, z)
  BY <1>3, <1>5, Arithmetical
<1>44. Runs(m, q34, w, r10, 10, target)
  BY ONLY <1>43, <1>39, <1>40, <1>41, <1>42, RunsCombine
<1>45. PICK r11 : r11 = Append(r10, va)
  OBVIOUS
<1>46. /\ Loaded(m, w, q34 + 1, va) /\ q34 # target /\ q37 = q34 + 3 /\ 11 = 10 + 1
       /\ Byte(chunk.code, q34) = Op.LOAD_LOCAL
  BY <1>3, <1>5
<1>47. Runs(m, q37, w, r11, 11, target)
  BY ONLY <1>46, <1>44, <1>45, RunsLoadOf
<1>48. PICK r12 : r12 = Append(r11, to)
  OBVIOUS
<1>49. /\ Loaded(m, w, q37 + 1, to) /\ q37 # target /\ q40 = q37 + 3 /\ 12 = 11 + 1
       /\ Byte(chunk.code, q37) = Op.LOAD_LOCAL
  BY <1>3, <1>5
<1>50. Runs(m, q40, w, r12, 12, target)
  BY ONLY <1>49, <1>47, <1>48, RunsLoadOf
<1>51. r12 = Two(r10, va, to)
  BY <1>45, <1>48 DEF Two
<1>52. IsSeq(r10)
  BY <1>44 DEF Runs
<1>53. PICK r13 : r13 = Append(r10, c5)
  OBVIOUS
<1>54. /\ q40 # target /\ q41 = q40 + 1 /\ 13 = 12 + 1
       /\ Byte(chunk.code, q40) = Op.GT /\ Op.GT \in Binaries
       /\ c5 = Apply(Op.GT, va, to)
  BY <1>3, <1>5, Arithmetical
<1>55. Runs(m, q41, w, r13, 13, target)
  BY ONLY <1>54, <1>50, <1>51, <1>52, <1>53, RunsCombine
<1>56. r13 = Two(r7, c4, c5)
  BY <1>42, <1>53 DEF Two
<1>57. IsSeq(r7)
  BY <1>33 DEF Runs
<1>58. PICK r14 : r14 = Append(r7, c6)
  OBVIOUS
<1>59. /\ q41 # target /\ q42 = q41 + 1 /\ 14 = 13 + 1
       /\ Byte(chunk.code, q41) = Op.TERNARY_MIN /\ Op.TERNARY_MIN \in Binaries
       /\ c6 = Apply(Op.TERNARY_MIN, c4, c5)
  BY <1>3, <1>5, Arithmetical
<1>60. Runs(m, q42, w, r14, 14, target)
  BY ONLY <1>59, <1>55, <1>56, <1>57, <1>58, RunsCombine
<1>61. r14 = Two(ops, c3, c6)
  BY <1>31, <1>58 DEF Two
<1>62. IsSeq(ops)
  BY <1>6 DEF Runs
<1>63. PICK r15 : r15 = Append(ops, c7)
  OBVIOUS
<1>64. /\ q42 # target /\ q43 = q42 + 1 /\ 15 = 14 + 1
       /\ Byte(chunk.code, q42) = Op.TERNARY_MAX /\ Op.TERNARY_MAX \in Binaries
       /\ c7 = Apply(Op.TERNARY_MAX, c3, c6)
  BY <1>3, <1>5, Arithmetical
<1>65. Runs(m, q43, w, r15, 15, target)
  BY ONLY <1>64, <1>60, <1>61, <1>62, <1>63, RunsCombine
<1>66. IsSeq(ops)
  BY <1>6 DEF Runs
<1>67. /\ Peek(r15) = c7 /\ Drop(r15, 1) = ops
  BY <1>66, <1>63, SeqLonger
<1>68. target = q43 + 3 + (IF AsBool(c7) THEN 0 ELSE Int16(chunk.code, q43 + 1))
  BY <1>1, <1>3
<1>69. Runs(m, target, w, ops, 16, target)
  BY <1>3, <1>5, <1>65, <1>66, <1>67, <1>68, RunsBranch
<1> QED
  BY <1>69

(* LOOP_RANGE_FAST is the header it was made from, unless the step is zero.  *)
LEMMA LoopRangeCanonical ==
    ASSUME NEW L, NEW V, VMInv(L, V), Matching(L), ~Departs, LoopRangeFast
    PROVE  AsCanonical
<1>1. /\ At(Op.LOOP_RANGE_FAST) /\ Plain /\ opt' = opt /\ op = Op.LOOP_RANGE_FAST
      /\ vm.outcome = "running"
  BY DEF LoopRangeFast, Plain, At
<1>2. /\ Op.LOOP_RANGE_FAST \in Translated /\ Width(Op.LOOP_RANGE_FAST) = 9
  BY JumpTable
<1>3. Byte(opt.code, vm.ip) = Op.LOOP_RANGE_FAST
  BY <1>1, <1>2, Recognised
<1>4. PICK m, q, w, ops : Here(L, V, m, q, w, ops)
  BY <1>1, StartsHere
<1>5. /\ S(7) \in Int /\ S(7) = Int16(opt.code, vm.ip + 7)
      /\ U(1) = UInt16(opt.code, vm.ip + 1) /\ U(3) = UInt16(opt.code, vm.ip + 3)
      /\ U(5) = UInt16(opt.code, vm.ip + 5)
  BY <1>1, <1>2, <1>3, Operands
<1>6. PICK va, to, st : va = Local(vm, U(1)) /\ to = Local(vm, U(3)) /\ st = Local(vm, U(5))
  OBVIOUS
<1>7. va \in V /\ to \in V /\ st \in V
  BY <1>6, Untouched
<1>8. PICK x \in Int : x = AsInt(va)
  BY <1>7, HasNumber
<1>9. PICK y \in Int : y = AsInt(to)
  BY <1>7, HasNumber
<1>10. PICK s \in Int : s = AsInt(st)
  BY <1>7, HasNumber
<1>11. s # 0
  BY <1>1, <1>6, <1>10 DEF Departs
<1>12. PICK far : far = ~(IF s > 0 THEN x < y ELSE x > y)
  OBVIOUS
<1>13. PICK p : p = vm.ip + (9 + (IF far THEN S(7) ELSE 0))
  OBVIOUS
<1>14. Flat(p, w, cache)
  <2>1. Go(vm, 9 + (IF IF s > 0 THEN x < y ELSE x > y THEN 0 ELSE S(7)), cache)
    BY <1>6, <1>8, <1>9, <1>10, <1>11 DEF LoopRangeFast
  <2>2. PICK len : len = 9 + (IF far THEN S(7) ELSE 0)
    OBVIOUS
  <2>3. Go(vm, len, cache)
    BY <1>12, <2>1, <2>2
  <2> QED
    BY <1>1, <1>4, <1>13, <2>2, <2>3, GoIsFlat DEF Here
<1>15. StandsFor(chunk, opt, vm.ip) /\ q = opt.origin[vm.ip]
  BY <1>4 DEF Here, Before
<1>16. /\ \A i \in LoopHeader : Byte(chunk.code, q + i[1]) = i[2]
       /\ U(1) = UInt16(chunk.code, q + 14) /\ U(3) = UInt16(chunk.code, q + 17)
       /\ U(5) = UInt16(chunk.code, q + 1)
       /\ Int64(chunk.code, q + 4) = 0 /\ Int64(chunk.code, q + 25) = 0
       /\ UInt16(chunk.code, q + 22) = U(5) /\ UInt16(chunk.code, q + 35) = U(1)
       /\ UInt16(chunk.code, q + 38) = U(3)
       /\ opt.origin[vm.ip + 9] = q + 46
       /\ opt.origin[vm.ip + 7 + 2 + S(7)] = q + 44 + 2 + Int16(chunk.code, q + 44)
       /\ Int16(chunk.code, q + 44) \in Nat
  BY <1>3, <1>5, <1>15 DEF StandsFor
<1>17. PICK z : z = Number(0)
  OBVIOUS
<1>18. /\ Loaded(m, w, q + 1, st) /\ Loaded(m, w, q + 22, st) /\ Loaded(m, w, q + 14, va)
       /\ Loaded(m, w, q + 35, va) /\ Loaded(m, w, q + 17, to) /\ Loaded(m, w, q + 38, to)
       /\ Pushed(q + 4, z) /\ Pushed(q + 25, z)
  <2>1. \A k : Local(vm, k) = Cell(w, LocalBase(m) + k)
    BY <1>4 DEF Local, Here
  <2> QED
    BY <1>6, <1>16, <1>17, <2>1 DEF Loaded, Pushed
<1>19. PICK c1, c2, c4, c5 : /\ c1 = Apply(Op.GT, st, z) /\ c2 = Apply(Op.LT, va, to)
                             /\ c4 = Apply(Op.LT, st, z) /\ c5 = Apply(Op.GT, va, to)
  OBVIOUS
<1>20. PICK c3, c6 : c3 = Apply(Op.TERNARY_MIN, c1, c2) /\ c6 = Apply(Op.TERNARY_MIN, c4, c5)
  OBVIOUS
<1>21. PICK c7 : c7 = Apply(Op.TERNARY_MAX, c3, c6)
  OBVIOUS
<1>22. AsBool(c7) <=> ~far
  <2>1. AsBool(c7) <=> IF s > 0 THEN x < y ELSE x > y
    BY <1>8, <1>9, <1>10, <1>11, <1>17, <1>19, <1>20, <1>21, RangeCondition
  <2> QED
    BY <1>12, <2>1
<1>23. PICK d \in Nat : d = Int16(chunk.code, q + 44)
  BY <1>16
<1>24. PICK target \in Nat : target = q + 46 + (IF far THEN d ELSE 0)
  BY <1>4 DEF Here
<1>25. target >= q + 46
  BY <1>4, <1>24 DEF Here
<1>26. target = q + 46 + (IF AsBool(c7) THEN 0 ELSE Int16(chunk.code, q + 44))
  BY <1>22, <1>23, <1>24
<1>27. Runs(m, target, w, ops, 16, target)
  BY <1>4, <1>16, <1>18, <1>19, <1>20, <1>21, <1>25, <1>26, LoopHeaderRuns
<1>28. opt.origin[p] = target
  <2>0. vm.ip \in Nat /\ q \in Nat
    BY <1>4 DEF Here
  <2>1. CASE far
    <3>1. PICK e \in Int : e = S(7)
      BY <1>5
    <3>2. p = vm.ip + 7 + 2 + e
      BY <1>13, <2>0, <2>1, <3>1
    <3>3. target = q + 44 + 2 + d
      BY <1>24, <2>0, <2>1
    <3> QED
      BY <1>16, <1>23, <3>1, <3>2, <3>3
  <2>2. CASE ~far
    <3>1. p = vm.ip + 9 /\ target = q + 46
      BY <1>13, <1>24, <2>0, <2>2
    <3> QED
      BY <1>16, <3>1
  <2> QED
    BY <2>1, <2>2
<1>29. 16 \in 1 .. 20 /\ ops = Contents(cache)
  BY <1>4 DEF Here
<1> QED
  BY <1>4, <1>14, <1>27, <1>28, <1>29, RunLands

-----------------------------------------------------------------------------
(* The instructions on fields, with their inline caches.                     *)

(* The slot of a field, wherever it is looked up.                            *)
LEMMA SlotIs ==
    ASSUME NEW V, NEW obj \in Records(V), ObjectOK(obj), NEW field, NEW slot,
           slot \in 1 .. Len(obj.names), obj.names[slot] = field
    PROVE  HasField(obj, field) /\ SlotOf(obj, field) = slot
<1>1. DOMAIN obj.names = 1 .. Len(obj.names)
  BY RecordTypes
<1>2. HasField(obj, field)
  BY <1>1 DEF HasField
<1>3. SlotOf(obj, field) \in 1 .. Len(obj.names) /\ obj.names[SlotOf(obj, field)] = field
  BY <1>1, <1>2, SlotFound
<1> QED
  BY <1>2, <1>3 DEF ObjectOK

(* The stack when its top was replaced.                                      *)
LEMMA TopReplaced ==
    ASSUME NEW L, NEW V, VMInv(L, V), NEW m, NEW q, NEW w, NEW ops, Here(L, V, m, q, w, ops),
           vm.outcome = "running",
           NEW n, n = Byte(opt.code, vm.ip + 3), Takes(Byte(opt.code, vm.ip), n) = 1, NEW v
    PROVE  Contents(PUSH_TOS(DISCARD_TOS(cache), v)) = Append(Drop(ops, 1), v)
<1>1. PICK c : c = DISCARD_TOS(cache)
  OBVIOUS
<1>2. IsCache(c, V) /\ Contents(c) = Drop(ops, 1)
  BY <1>1, OneDiscarded, OneThere DEF Here
<1>3. PICK W : W = V \cup {v}
  OBVIOUS
<1>4. Seq(V) \subseteq Seq(W) /\ v \in W
  BY <1>3, LargerSeq
<1>5. IsCache(c, W)
  BY <1>2, <1>4 DEF IsCache
<1>6. Contents(PUSH_TOS(c, v)) = Append(Contents(c), v)
  BY <1>4, <1>5, ContentsPush
<1> QED
  BY <1>1, <1>2, <1>6

(* What OP_GET_FIELD does.                                                   *)
LEMMA LooksUp ==
    ASSUME NEW m, DOMAIN m = SyncedFields, NEW q, NEW w, NEW ops,
           Byte(Reference.code, q) = Op.GET_FIELD,
           NEW f, f = Reference.strings[UInt16(Reference.code, q + 1)], NEW v, v = Peek(ops)
    PROVE  /\ ~IsObj(v) => Canonical(Reference, At3(m, q, w, ops)) =
                              At3(m, q + 3, w, Append(Drop(ops, 1), Number(0)))
           /\ IsObj(v) /\ HasField(m.heap[v[2]], f) =>
                  Canonical(Reference, At3(m, q, w, ops)) =
                      At3(m, q + 3, w, Append(Drop(ops, 1),
                              m.heap[v[2]].vals[SlotOf(m.heap[v[2]], f)]))
           /\ IsObj(v) /\ ~HasField(m.heap[v[2]], f) =>
                  Canonical(Reference, At3(m, q, w, ops)) =
                      Raise(At3(m, q, w, ops), Drop(ops, 1))
<1>1. PICK s : s = At3(m, q, w, ops)
  OBVIOUS
<1>2. s.ip = q /\ s.ops = ops /\ s.heap = m.heap
  BY <1>1, MovedState
<1>3. ExecAt(Reference, s, q, Op.GET_FIELD) =
          ExecGetField(Reference, s, Reference.strings[UInt16(Reference.code, q + 1)])
  BY OpNumbers DEF ExecAt, Binaries
<1>4. Canonical(Reference, s) = ExecGetField(Reference, s, f)
  BY <1>2, <1>3 DEF Canonical
<1>5. \A o : Advance(s, 3, o) = At3(m, q + 3, w, o)
  BY <1>1, MovedOn
<1>6. ExecGetField(Reference, s, f) =
          IF ~IsObj(v) THEN Advance(s, 3, Append(Drop(ops, 1), Number(0)))
          ELSE IF HasField(m.heap[v[2]], f)
          THEN Advance(s, 3, Append(Drop(ops, 1),
                   m.heap[v[2]].vals[SlotOf(m.heap[v[2]], f)]))
          ELSE Raise(s, Drop(ops, 1))
  BY <1>2 DEF ExecGetField
<1> QED
  BY <1>1, <1>4, <1>5, <1>6

(* A machine that an exception has left.                                     *)
LEMMA RaisedOut ==
    ASSUME NEW m, IsMachine(m), NEW q, NEW w, NEW ops, m.tries = <<>>, NEW rest,
           NEW s, s = Raise(At3(m, q, w, ops), rest)
    PROVE  /\ IsMachine(s) /\ s.ip = q /\ s.locals = w /\ s.ops = rest /\ s.top = m.top
           /\ s.calls = m.calls /\ s.tries = m.tries /\ s.heap = m.heap /\ s.out = m.out
           /\ s.outcome = "escaped"
<1>1. DOMAIN m = SyncedFields
  BY MachineFields
<1>2. PICK t : t = At3(m, q, w, ops)
  OBVIOUS
<1>3. /\ DOMAIN t = SyncedFields /\ t.ip = q /\ t.locals = w /\ t.ops = ops /\ t.top = m.top
      /\ t.calls = m.calls /\ t.tries = m.tries /\ t.heap = m.heap /\ t.out = m.out
  BY ONLY <1>1, <1>2, MovedState
<1>4. s = [t EXCEPT !.ops = rest, !.outcome = "escaped"]
  BY <1>2, <1>3 DEF Raise
<1>5. IsMachine(t)
  BY <1>2, MovedIs
<1>6. /\ s.ip = t.ip /\ s.locals = t.locals /\ s.ops = rest /\ s.top = t.top
      /\ s.calls = t.calls /\ s.tries = t.tries /\ s.heap = t.heap /\ s.out = t.out
      /\ s.outcome = "escaped"
  BY <1>3, <1>4 DEF SyncedFields, VMFields
<1>7. IsMachine(s)
  BY <1>4, <1>5 DEF IsMachine, SyncedFields, VMFields
<1> QED
  BY <1>3, <1>6, <1>7

(* A machine that has ended, at no place.                                    *)
LEMMA EndedIs ==
    ASSUME NEW s, IsMachine(s), s.outcome # "running", NEW e, e = Ended(s)
    PROVE  /\ IsMachine(e) /\ e.ip = 0 /\ e.locals = s.locals /\ e.ops = s.ops /\ e.top = s.top
           /\ e.calls = s.calls /\ e.tries = s.tries /\ e.heap = s.heap /\ e.out = s.out
           /\ e.outcome = s.outcome
<1>1. e = [s EXCEPT !.ip = 0] /\ DOMAIN s = SyncedFields
  BY MachineFields DEF Ended
<1>2. IsMachine(e)
  BY <1>1 DEF IsMachine, SyncedFields, VMFields
<1> QED
  BY <1>1, <1>2 DEF SyncedFields, VMFields

(* The field an instruction with a cache is about, in both codes.            *)
LEMMA FieldHere ==
    ASSUME NEW L, NEW V, VMInv(L, V), Matching(L), NEW o \in {Op.GET_FIELD_IC, Op.SET_FIELD_IC},
           At(o), NEW m, NEW q, NEW w, NEW ops, Here(L, V, m, q, w, ops), NEW k, k = U(1) + 1
    PROVE  /\ vm.outcome = "running" /\ Byte(opt.code, vm.ip) = o
           /\ Reference.strings[UInt16(Reference.code, q + 1)] = opt.strings[opt.fields[k]]
           /\ opt.origin[vm.ip + 3] = q + 3
           /\ o = Op.GET_FIELD_IC => Byte(Reference.code, q) = Op.GET_FIELD
           /\ o = Op.SET_FIELD_IC => Byte(Reference.code, q) = Op.SET_FIELD
<1>1. o \in Translated /\ Width(o) = 3
  BY StraightTable DEF Straight
<1>2. vm.outcome = "running" /\ Byte(opt.code, vm.ip) = o
  BY <1>1, Recognised
<1>3. U(1) = UInt16(opt.code, vm.ip + 1)
  <2>1. 3 \in Nat /\ 1 \in 1 .. 3 - 2
    OBVIOUS
  <2> QED
    BY <1>1, <1>2, <2>1, Operands
<1>4. StandsFor(chunk, opt, vm.ip) /\ q = opt.origin[vm.ip] /\ Reference.code = chunk.code
  BY DEF Here, Before
<1>5. Reference.strings = opt.strings
  BY ReferenceIs
<1>6. CASE o = Op.GET_FIELD_IC
  <2>1. /\ Byte(chunk.code, q) = Op.GET_FIELD /\ opt.origin[vm.ip + 3] = q + 3
        /\ opt.fields[UInt16(opt.code, vm.ip + 1) + 1] = UInt16(chunk.code, q + 1)
    BY <1>2, <1>4, <1>6 DEF StandsFor
  <2>2. Op.GET_FIELD_IC # Op.SET_FIELD_IC
    BY OpNumbers
  <2> QED
    BY <1>2, <1>3, <1>4, <1>5, <1>6, <2>1, <2>2
<1>7. CASE o = Op.SET_FIELD_IC
  <2>1. /\ Byte(chunk.code, q) = Op.SET_FIELD /\ opt.origin[vm.ip + 3] = q + 3
        /\ opt.fields[UInt16(opt.code, vm.ip + 1) + 1] = UInt16(chunk.code, q + 1)
    BY <1>2, <1>4, <1>7 DEF StandsFor
  <2>2. Op.GET_FIELD_IC # Op.SET_FIELD_IC
    BY OpNumbers
  <2> QED
    BY <1>2, <1>3, <1>4, <1>5, <1>7, <2>1, <2>2
<1> QED
  BY <1>6, <1>7

(* A field that is found: the value replaces the object.                     *)
LEMMA FieldReplaces ==
    ASSUME NEW L, NEW V, VMInv(L, V), Matching(L), At(Op.GET_FIELD_IC), opt' = opt,
           NEW m, NEW q, NEW w, NEW ops, Here(L, V, m, q, w, ops), NEW x,
           Go(vm, 3, PUSH_TOS(DISCARD_TOS(cache), x)),
           Canonical(Reference, At3(m, q, w, ops)) =
               At3(m, q + 3, w, Append(Drop(ops, 1), x))
    PROVE  AsCanonical
<1>1. /\ vm.outcome = "running" /\ Byte(opt.code, vm.ip) = Op.GET_FIELD_IC
      /\ opt.origin[vm.ip + 3] = q + 3
  BY FieldHere
<1>2. PICK c : c = PUSH_TOS(DISCARD_TOS(cache), x)
  OBVIOUS
<1>3. Flat(vm.ip + 3, w, c)
  BY <1>1, <1>2, GoIsFlat DEF Here
<1>4. Contents(c) = Append(Drop(ops, 1), x)
  <2>1. PICK n : n = Byte(opt.code, vm.ip + 3)
    OBVIOUS
  <2>2. Takes(Byte(opt.code, vm.ip), n) = 1
    BY <1>1, StraightTable DEF Straight
  <2> QED
    BY <1>1, <1>2, <2>1, <2>2, TopReplaced
<1> QED
  BY <1>1, <1>3, <1>4, StepHere

(* So does a read, unless there is no such field and a try block is open.    *)
LEMMA GetFieldICCanonical ==
    ASSUME NEW L, NEW V, VMInv(L, V), Matching(L), ~Departs, GetFieldIC
    PROVE  AsCanonical
<1>1. PICK k, v : k = U(1) + 1 /\ v = PEEK_TOS(cache)
  OBVIOUS
<1>2. At(Op.GET_FIELD_IC) /\ Straight(Op.GET_FIELD_IC, 1, 1, 3) /\ opt' = opt
  BY StraightTable DEF GetFieldIC
<1>3. v \in V /\ k \in DOMAIN fieldICs
  BY <1>1, <1>2, TopIn, FieldNamed
<1>4. PICK field, obj, rest : field = opt.strings[opt.fields[k]] /\ obj = vm.heap[v[2]]
                              /\ rest = DISCARD_TOS(cache)
  OBVIOUS
<1>5. vm.outcome = "running"
  BY <1>2, Recognised DEF Straight
<1>6. PICK m, q, w, ops : Here(L, V, m, q, w, ops)
  BY <1>5, StartsHere
<1>7. /\ Byte(opt.code, vm.ip) = Op.GET_FIELD_IC
      /\ Byte(Reference.code, q) = Op.GET_FIELD
      /\ Reference.strings[UInt16(Reference.code, q + 1)] = field
  BY <1>1, <1>2, <1>4, <1>6, FieldHere
<1>8. DOMAIN m = SyncedFields /\ m.heap = vm.heap /\ m.tries = TriesFrom(opt.origin, vm.tries)
      /\ IsMachine(m)
  BY <1>6 DEF Here, Before
<1>9. v = Peek(ops) /\ Contents(rest) = Drop(ops, 1) /\ IsCache(rest, V)
  <2>1. PICK n : n = Byte(opt.code, vm.ip + 3)
    OBVIOUS
  <2>2. Takes(Byte(opt.code, vm.ip), n) = 1
    BY <1>2, <1>7 DEF Straight
  <2>3. Height(cache) >= 1
    BY <1>5, <2>1, <2>2, EnoughOnStack
  <2> QED
    BY <1>1, <1>4, <1>5, <1>6, <2>1, <2>2, <2>3, OneThere, Untouched, DiscardStacks
       DEF Here, Stacked
<1>10. /\ ~IsObj(v) => Canonical(Reference, At3(m, q, w, ops)) =
                          At3(m, q + 3, w, Append(Drop(ops, 1), Number(0)))
       /\ IsObj(v) /\ HasField(obj, field) =>
              Canonical(Reference, At3(m, q, w, ops)) =
                  At3(m, q + 3, w, Append(Drop(ops, 1), obj.vals[SlotOf(obj, field)]))
       /\ IsObj(v) /\ ~HasField(obj, field) =>
              Canonical(Reference, At3(m, q, w, ops)) =
                  Raise(At3(m, q, w, ops), Drop(ops, 1))
  BY <1>4, <1>7, <1>8, <1>9, LooksUp
<1>11. CASE ~IsObj(v)
  <2>1. PICK x : x = Number(0)
    OBVIOUS
  <2>2. Go(vm, 3, PUSH_TOS(DISCARD_TOS(cache), x))
    BY <1>1, <1>11, <2>1 DEF GetFieldIC
  <2> QED
    BY <1>2, <1>6, <1>10, <1>11, <2>1, <2>2, FieldReplaces
<1>12. CASE IsObj(v) /\ Hit(fieldICs[k], v)
  <2>1. PICK slot : slot = fieldICs[k].slot
    OBVIOUS
  <2>2. PICK x : x = obj.vals[slot]
    OBVIOUS
  <2>3. Go(vm, 3, PUSH_TOS(DISCARD_TOS(cache), x))
    BY <1>1, <1>4, <1>12, <2>1, <2>2 DEF GetFieldIC
  <2>4. slot \in 1 .. Len(obj.names) /\ obj.names[slot] = field
    BY <1>3, <1>4, <1>12, <2>1, HitTells
  <2>5. obj \in Records(V) /\ ObjectOK(obj)
    BY <1>3, <1>4, <1>12, ObjectThere
  <2>6. HasField(obj, field) /\ SlotOf(obj, field) = slot
    BY <2>4, <2>5, SlotIs
  <2> QED
    BY <1>2, <1>6, <1>10, <1>12, <2>2, <2>3, <2>6, FieldReplaces
<1>13. CASE IsObj(v) /\ ~Hit(fieldICs[k], v) /\ HasField(obj, field)
  <2>1. PICK x : x = obj.vals[SlotOf(obj, field)]
    OBVIOUS
  <2>2. Go(vm, 3, PUSH_TOS(DISCARD_TOS(cache), x))
    BY <1>1, <1>4, <1>13, <2>1 DEF GetFieldIC
  <2> QED
    BY <1>2, <1>6, <1>10, <1>13, <2>1, <2>2, FieldReplaces
<1>14. CASE IsObj(v) /\ ~Hit(fieldICs[k], v) /\ ~HasField(obj, field)
  <2>1. vm' = [vm EXCEPT !.outcome = "escaped"] /\ cache' = FLUSH_TOS(rest)
    BY <1>1, <1>4, <1>14 DEF GetFieldIC
  <2>2. vm.tries = <<>>
    <3>1. op = Op.GET_FIELD_IC
      BY <1>2 DEF At
    <3> QED
      BY <1>1, <1>4, <1>5, <1>14, <3>1 DEF Departs
  <2>3. m.tries = <<>>
    BY <1>8, <2>2 DEF TriesFrom
  <2>4. PICK r : r = Drop(ops, 1)
    OBVIOUS
  <2>5. PICK s : s = Raise(At3(m, q, w, ops), r)
    OBVIOUS
  <2>6. /\ IsMachine(s) /\ s.locals = w /\ s.ops = r /\ s.top = m.top
        /\ s.calls = m.calls /\ s.tries = m.tries /\ s.heap = m.heap /\ s.out = m.out
        /\ s.outcome = "escaped"
    BY <1>8, <2>3, <2>5, RaisedOut
  <2>7. PICK e : e = Ended(s)
    OBVIOUS
  <2>8. /\ IsMachine(e) /\ e.ip = 0 /\ e.locals = w /\ e.ops = r /\ e.top = m.top
        /\ e.calls = m.calls /\ e.tries = m.tries /\ e.heap = m.heap /\ e.out = m.out
        /\ e.outcome = "escaped"
    BY <2>6, <2>7, EndedIs
  <2>9. Contents(cache') = r
    BY <1>9, <2>1, <2>4, ContentsFlush
  <2>10. DOMAIN vm = VMFields
    BY DEF VMInv, MachineOK
  <2>11. /\ vm'.outcome = "escaped" /\ vm'.locals = vm.locals /\ vm'.top = vm.top
         /\ vm'.calls = vm.calls /\ vm'.tries = vm.tries /\ vm'.heap = vm.heap
         /\ vm'.out = vm.out
    BY <2>1, <2>10 DEF VMFields
  <2>12. /\ w = vm.locals /\ m.top = vm.top /\ m.out = vm.out /\ m.heap = vm.heap
         /\ m.calls = CallsFrom(opt.origin, vm.calls)
         /\ m.tries = TriesFrom(opt.origin, vm.tries)
    BY <1>6 DEF Here, Before
  <2>13. Means(e, opt.origin, vm', cache')
    BY <2>8, <2>9, <2>11, <2>12 DEF Means, PlaceFrom
  <2>14. s = Canonical(Reference, m) /\ m = Meaning /\ m.outcome = "running"
    BY <1>6, <1>10, <1>14, <2>4, <2>5 DEF Here, Before
  <2> QED
    BY <1>2, <2>7, <2>13, <2>14, ArrivesAtOnce DEF AsCanonical
<1> QED
  BY <1>11, <1>12, <1>13, <1>14

(* The step is the canonical instruction when the machine it leads to is the *)
(* one the next state stands for.                                            *)
LEMMA StepsTo ==
    ASSUME NEW L, NEW V, NEW m, NEW q, NEW w, NEW ops, Here(L, V, m, q, w, ops), opt' = opt,
           NEW s, s = Canonical(Reference, At3(m, q, w, ops)), IsMachine(s),
           s.outcome = "running", vm'.outcome = "running", s.ip = opt.origin[vm'.ip],
           s.locals = vm'.locals, s.ops = Contents(cache'), s.top = vm'.top,
           s.calls = CallsFrom(opt.origin, vm'.calls),
           s.tries = TriesFrom(opt.origin, vm'.tries), s.heap = vm'.heap, s.out = vm'.out
    PROVE  AsCanonical
<1>1. Means(s, opt.origin, vm', cache')
  BY DEF Means, PlaceFrom
<1>2. Means(Ended(s), opt.origin, vm', cache')
  BY <1>1 DEF Ended
<1>3. s = Canonical(Reference, m) /\ m = Meaning /\ m.outcome = "running"
  BY DEF Here, Before
<1> QED
  BY <1>2, <1>3, ArrivesAtOnce DEF AsCanonical

(* And when it has ended.                                                    *)
LEMMA StepsOut ==
    ASSUME NEW L, NEW V, NEW m, NEW q, NEW w, NEW ops, Here(L, V, m, q, w, ops), opt' = opt,
           NEW s, s = Canonical(Reference, At3(m, q, w, ops)), IsMachine(s),
           s.outcome # "running", vm'.outcome = s.outcome,
           s.locals = vm'.locals, s.ops = Contents(cache'), s.top = vm'.top,
           s.calls = CallsFrom(opt.origin, vm'.calls),
           s.tries = TriesFrom(opt.origin, vm'.tries), s.heap = vm'.heap, s.out = vm'.out
    PROVE  AsCanonical
<1>1. PICK e : e = Ended(s)
  OBVIOUS
<1>2. /\ IsMachine(e) /\ e.ip = 0 /\ e.locals = s.locals /\ e.ops = s.ops /\ e.top = s.top
      /\ e.calls = s.calls /\ e.tries = s.tries /\ e.heap = s.heap /\ e.out = s.out
      /\ e.outcome = s.outcome
  BY <1>1, EndedIs
<1>3. Means(e, opt.origin, vm', cache')
  BY <1>2 DEF Means, PlaceFrom
<1>4. s = Canonical(Reference, m) /\ m = Meaning /\ m.outcome = "running"
  BY DEF Here, Before
<1> QED
  BY <1>1, <1>3, <1>4, ArrivesAtOnce DEF AsCanonical

(* A machine that moved on and changed its objects.                          *)
WithHeap(m, heap) == [m EXCEPT !.heap = heap]

(* A step that also writes a field.                                          *)
LEMMA HeapChanged ==
    ASSUME NEW m, IsMachine(m), NEW q, NEW w, NEW ops, NEW heap,
           NEW s, s = WithHeap(At3(m, q, w, ops), heap)
    PROVE  /\ IsMachine(s) /\ s.ip = q /\ s.locals = w /\ s.ops = ops /\ s.top = m.top
           /\ s.calls = m.calls /\ s.tries = m.tries /\ s.heap = heap /\ s.out = m.out
           /\ s.outcome = m.outcome
<1>1. DOMAIN m = SyncedFields
  BY MachineFields
<1>2. PICK t : t = At3(m, q, w, ops)
  OBVIOUS
<1>3. /\ DOMAIN t = SyncedFields /\ t.ip = q /\ t.locals = w /\ t.ops = ops /\ t.top = m.top
      /\ t.calls = m.calls /\ t.tries = m.tries /\ t.out = m.out /\ t.outcome = m.outcome
  BY ONLY <1>1, <1>2, MovedState
<1>4. IsMachine(t)
  BY <1>2, MovedIs
<1>5. s = [t EXCEPT !.heap = heap]
  BY <1>2 DEF WithHeap
<1>6. IsMachine(s)
  BY <1>4, <1>5, ChangedIs DEF SyncedFields, VMFields
<1> QED
  BY <1>3, <1>5, <1>6 DEF SyncedFields, VMFields

(* What OP_SET_FIELD does.                                                   *)
LEMMA AssignsTo ==
    ASSUME NEW m, DOMAIN m = SyncedFields, NEW q, NEW w, NEW ops,
           Byte(Reference.code, q) = Op.SET_FIELD,
           NEW f, f = Reference.strings[UInt16(Reference.code, q + 1)],
           NEW v, v = Args(ops, 2)[1], NEW x, x = Peek(ops), NEW rest, rest = Drop(ops, 2)
    PROVE  /\ ~IsObj(v) => Canonical(Reference, At3(m, q, w, ops)) = At3(m, q + 3, w, rest)
           /\ IsObj(v) =>
                  Canonical(Reference, At3(m, q, w, ops)) =
                      WithHeap(At3(m, q + 3, w, rest),
                               [m.heap EXCEPT ![v[2]] = SetField(m.heap[v[2]], f, x)])
<1>1. PICK s : s = At3(m, q, w, ops)
  OBVIOUS
<1>2. s.ip = q /\ s.ops = ops /\ s.heap = m.heap
  BY <1>1, MovedState
<1>3. ExecAt(Reference, s, q, Op.SET_FIELD) =
          ExecSetField(Reference, s, Reference.strings[UInt16(Reference.code, q + 1)])
  BY OpNumbers DEF ExecAt, Binaries
<1>4. Canonical(Reference, s) = ExecSetField(Reference, s, f)
  BY <1>2, <1>3 DEF Canonical
<1>5. PICK t : t = At3(m, q + 3, w, rest)
  OBVIOUS
<1>6. Advance(s, 3, rest) = t
  BY <1>1, <1>5, MovedOn
<1>7. DOMAIN t = SyncedFields /\ t.heap = m.heap
  BY <1>5, MovedState
<1>8. ExecSetField(Reference, s, f) =
          IF ~IsObj(v) THEN t ELSE [t EXCEPT !.heap[v[2]] = SetField(@, f, x)]
  BY <1>2, <1>6 DEF ExecSetField
<1>9. [t EXCEPT !.heap[v[2]] = SetField(@, f, x)] =
          WithHeap(t, [m.heap EXCEPT ![v[2]] = SetField(m.heap[v[2]], f, x)])
  BY <1>7 DEF WithHeap
<1> QED
  BY <1>1, <1>4, <1>5, <1>8, <1>9

(* The machine whose objects are heap, two operands taken.                   *)
LEMMA AssignedHere ==
    ASSUME NEW L, NEW V, VMInv(L, V), Matching(L), At(Op.SET_FIELD_IC), opt' = opt,
           NEW m, NEW q, NEW w, NEW ops, Here(L, V, m, q, w, ops), NEW heap,
           Go([vm EXCEPT !.heap = heap], 3, POP_TWO_TOS(cache)),
           Canonical(Reference, At3(m, q, w, ops)) =
               WithHeap(At3(m, q + 3, w, Drop(ops, 2)), heap)
    PROVE  AsCanonical
<1>1. /\ vm.outcome = "running" /\ Byte(opt.code, vm.ip) = Op.SET_FIELD_IC
      /\ opt.origin[vm.ip + 3] = q + 3
  BY FieldHere
<1>2. DOMAIN vm = VMFields
  BY DEF VMInv, MachineOK
<1>3. /\ vm'.ip = vm.ip + 3 /\ vm'.locals = vm.locals /\ vm'.top = vm.top
      /\ vm'.calls = vm.calls /\ vm'.tries = vm.tries /\ vm'.heap = heap
      /\ vm'.out = vm.out /\ vm'.outcome = vm.outcome /\ cache' = POP_TWO_TOS(cache)
  BY <1>2 DEF Go, VMFields
<1>4. Contents(cache') = Drop(ops, 2)
  <2>1. PICK h \in Nat : Height(cache) = h
    BY Untouched
  <2>2. h >= 2
    <3>1. PICK n : n = Byte(opt.code, vm.ip + 3)
      OBVIOUS
    <3>2. Takes(Byte(opt.code, vm.ip), n) = 2
      BY <1>1, StraightTable DEF Straight
    <3> QED
      BY <1>1, <2>1, <3>1, <3>2, EnoughOnStack
  <2> QED
    BY <1>3, <2>1, <2>2, ContentsPopTwo DEF Here, VMInv, MachineOK
<1>5. PICK q3, rest, s : /\ q3 = q + 3 /\ rest = Drop(ops, 2)
                         /\ s = WithHeap(At3(m, q3, w, rest), heap)
  OBVIOUS
<1>6. /\ IsMachine(m) /\ m.outcome = "running" /\ w = vm.locals /\ m.top = vm.top
      /\ m.out = vm.out /\ m.calls = CallsFrom(opt.origin, vm.calls)
      /\ m.tries = TriesFrom(opt.origin, vm.tries)
  BY DEF Here, Before
<1>7. /\ IsMachine(s) /\ s.ip = q3 /\ s.locals = w /\ s.ops = rest /\ s.top = m.top
      /\ s.calls = m.calls /\ s.tries = m.tries /\ s.heap = heap /\ s.out = m.out
      /\ s.outcome = m.outcome
  <2>1. IsMachine(m) /\ s = WithHeap(At3(m, q3, w, rest), heap)
    BY <1>5, <1>6
  <2> QED
    BY ONLY <2>1, HeapChanged
<1>8. /\ s.outcome = "running" /\ vm'.outcome = "running" /\ s.ip = opt.origin[vm'.ip]
      /\ s.locals = vm'.locals /\ s.ops = Contents(cache') /\ s.top = vm'.top
      /\ s.calls = CallsFrom(opt.origin, vm'.calls)
      /\ s.tries = TriesFrom(opt.origin, vm'.tries) /\ s.heap = vm'.heap /\ s.out = vm'.out
  BY <1>1, <1>3, <1>4, <1>5, <1>6, <1>7
<1>9. s = Canonical(Reference, At3(m, q, w, ops))
  BY <1>5
<1>10. Here(L, V, m, q, w, ops) /\ opt' = opt /\ IsMachine(s)
  BY <1>7
<1> QED
  BY ONLY <1>8, <1>9, <1>10, StepsTo

(* A store to a field finds its slot in the cache or by its name.            *)
LEMMA SetFieldICCanonical ==
    ASSUME NEW L, NEW V, VMInv(L, V), Matching(L), SetFieldIC
    PROVE  AsCanonical
<1>1. PICK k, v, x : k = U(1) + 1 /\ v = TopTwo(cache)[1] /\ x = TopTwo(cache)[2]
  OBVIOUS
<1>2. At(Op.SET_FIELD_IC) /\ Straight(Op.SET_FIELD_IC, 2, 0, 3) /\ opt' = opt
  BY StraightTable DEF SetFieldIC
<1>3. vm.outcome = "running"
  BY <1>2, Recognised DEF Straight
<1>4. PICK field : field = opt.strings[opt.fields[k]]
  OBVIOUS
<1>5. PICK m, q, w, ops : Here(L, V, m, q, w, ops)
  BY <1>3, StartsHere
<1>6. /\ Byte(opt.code, vm.ip) = Op.SET_FIELD_IC
      /\ Byte(Reference.code, q) = Op.SET_FIELD
      /\ Reference.strings[UInt16(Reference.code, q + 1)] = field
      /\ opt.origin[vm.ip + 3] = q + 3
  BY <1>1, <1>2, <1>4, <1>5, FieldHere
<1>7. PICK h \in Nat : Height(cache) = h
  BY Untouched
<1>8. h >= 2
  <2>1. PICK n : n = Byte(opt.code, vm.ip + 3)
    OBVIOUS
  <2>2. Takes(Byte(opt.code, vm.ip), n) = 2
    BY <1>2, <1>6 DEF Straight
  <2> QED
    BY <1>3, <1>7, <2>1, <2>2, EnoughOnStack
<1>9. IsCache(cache, V)
  BY DEF VMInv, MachineOK
<1>10. v = Args(ops, 2)[1] /\ x = Peek(ops) /\ v \in V
  BY <1>1, <1>5, <1>7, <1>8, <1>9, ContentsTwo, TopTwoIn DEF Here
<1>11. k \in DOMAIN fieldICs
  BY <1>1, <1>2, FieldNamed
<1>12. DOMAIN m = SyncedFields /\ m.heap = vm.heap
  BY <1>5 DEF Here, Before
<1>13. PICK rest : rest = Drop(ops, 2)
  OBVIOUS
<1>20. /\ ~IsObj(v) => Canonical(Reference, At3(m, q, w, ops)) = At3(m, q + 3, w, rest)
       /\ IsObj(v) =>
              Canonical(Reference, At3(m, q, w, ops)) =
                  WithHeap(At3(m, q + 3, w, rest),
                           [m.heap EXCEPT ![v[2]] = SetField(m.heap[v[2]], field, x)])
  BY <1>6, <1>10, <1>12, <1>13, AssignsTo
<1>14. CASE ~IsObj(v)
  <2>1. Go(vm, 3, POP_TWO_TOS(cache))
    BY <1>1, <1>14 DEF SetFieldIC
  <2>2. PICK c : c = POP_TWO_TOS(cache)
    OBVIOUS
  <2>3. Flat(vm.ip + 3, w, c)
    BY <1>2, <1>3, <1>5, <2>1, <2>2, GoIsFlat DEF Here
  <2>4. Contents(c) = rest
    BY <1>5, <1>7, <1>8, <1>9, <1>13, <2>2, ContentsPopTwo DEF Here
  <2>5. Canonical(Reference, At3(m, q, w, ops)) = At3(m, q + 3, w, rest)
    BY <1>14, <1>20
  <2> QED
    BY <1>5, <1>6, <2>3, <2>4, <2>5, StepHere
<1>15. CASE IsObj(v)
  <2>1. PICK id : id = v[2]
    OBVIOUS
  <2>2. id \in 1 .. Len(vm.heap) /\ vm.heap[id] \in Records(V) /\ ObjectOK(vm.heap[id])
    BY <1>10, <1>15, <2>1, ObjectThere
  <2>3. PICK done : done = SetField(vm.heap[id], field, x)
    OBVIOUS
  <2>4. PICK heap : heap = [vm.heap EXCEPT ![id] = done]
    OBVIOUS
  <2>5. Go([vm EXCEPT !.heap = heap], 3, POP_TWO_TOS(cache))
    <3>1. CASE Hit(fieldICs[k], v)
      <4>1. PICK slot : slot = fieldICs[k].slot
        OBVIOUS
      <4>2. slot \in 1 .. Len(vm.heap[id].names) /\ vm.heap[id].names[slot] = field
        BY <1>4, <1>10, <1>11, <2>1, <3>1, <4>1, HitTells
      <4>3. done = [vm.heap[id] EXCEPT !.vals[slot] = x]
        <5>1. PICK old : old = vm.heap[id]
          OBVIOUS
        <5>2. old \in Records(V) /\ ObjectOK(old) /\ slot \in 1 .. Len(old.names)
              /\ old.names[slot] = field
          BY <2>2, <4>2, <5>1
        <5>3. SetField(old, field, x) = [old EXCEPT !.vals[slot] = x]
          <6>1. HasField(old, field) /\ SlotOf(old, field) = slot
            BY <5>2, SlotIs
          <6> QED
            BY <6>1 DEF SetField
        <5> QED
          BY <2>3, <5>1, <5>3
      <4>4. Go([vm EXCEPT !.heap[v[2]].vals[slot] = x], 3, POP_TWO_TOS(cache))
        BY <1>1, <1>15, <3>1, <4>1 DEF SetFieldIC
      <4>5. [vm EXCEPT !.heap[v[2]].vals[slot] = x] = [vm EXCEPT !.heap = heap]
        BY <2>1, <2>4, <4>3
      <4> QED
        BY <4>4, <4>5
    <3>2. CASE ~Hit(fieldICs[k], v)
      <4>1. Go([vm EXCEPT !.heap[v[2]] = done], 3, POP_TWO_TOS(cache))
        BY <1>1, <1>4, <1>15, <2>1, <2>3, <3>2 DEF SetFieldIC
      <4>2. [vm EXCEPT !.heap[v[2]] = done] = [vm EXCEPT !.heap = heap]
        BY <2>1, <2>4
      <4> QED
        BY <4>1, <4>2
    <3> QED
      BY <3>1, <3>2
  <2>6. Canonical(Reference, At3(m, q, w, ops)) =
            WithHeap(At3(m, q + 3, w, rest),
                     [m.heap EXCEPT ![v[2]] = SetField(m.heap[v[2]], field, x)])
    BY <1>15, <1>20
  <2>7. Canonical(Reference, At3(m, q, w, ops)) =
            WithHeap(At3(m, q + 3, w, Drop(ops, 2)), heap)
    BY <1>12, <1>13, <2>1, <2>3, <2>4, <2>6
  <2> QED
    BY <1>2, <1>5, <2>5, <2>7, AssignedHere
<1> QED
  BY <1>14, <1>15

-----------------------------------------------------------------------------
(* Calls and returns.                                                        *)

(* The machine after a call.                                                 *)
LEMMA EnteredIs ==
    ASSUME NEW m, IsMachine(m), NEW q, NEW w, NEW ops, NEW entry, NEW size, NEW rest, NEW args,
           NEW r, r = q + 4, NEW s, s = Enter(At3(m, q, w, ops), 4, entry, size, rest, args)
    PROVE  /\ IsMachine(s) /\ s.ip = entry /\ s.locals = WriteCells(w, m.top, args)
           /\ s.ops = rest /\ s.top = m.top + size
           /\ s.calls = Append(m.calls, [ret |-> r, base |-> m.top, depth |-> Len(rest),
                                         size |-> size])
           /\ s.tries = m.tries /\ s.heap = m.heap /\ s.out = m.out /\ s.outcome = m.outcome
<1>1. DOMAIN m = SyncedFields
  BY MachineFields
<1>2. PICK t : t = At3(m, q, w, ops)
  OBVIOUS
<1>3. /\ DOMAIN t = SyncedFields /\ t.ip = q /\ t.locals = w /\ t.ops = ops /\ t.top = m.top
      /\ t.calls = m.calls /\ t.tries = m.tries /\ t.heap = m.heap /\ t.out = m.out
      /\ t.outcome = m.outcome
  BY ONLY <1>1, <1>2, MovedState
<1>4. PICK calls, locals : /\ calls = Append(m.calls, [ret |-> r, base |-> m.top,
                                                       depth |-> Len(rest), size |-> size])
                           /\ locals = WriteCells(w, m.top, args)
  OBVIOUS
<1>5. s = [t EXCEPT !.calls = calls, !.locals = locals, !.top = m.top + size, !.ops = rest,
                    !.ip = entry]
  BY <1>2, <1>3, <1>4 DEF Enter
<1>6. IsMachine(t)
  BY <1>2, MovedIs
<1>7. IsMachine(s)
  BY <1>5, <1>6 DEF IsMachine, SyncedFields, VMFields
<1> QED
  BY <1>3, <1>4, <1>5, <1>7 DEF SyncedFields, VMFields

(* A call is the canonical one when it makes the same frame.                 *)
Entered(q1, size, n, ops) ==
    /\ vm'.ip = q1 /\ vm'.locals = WriteCells(vm.locals, vm.top, Args(ops, n))
    /\ vm'.top = vm.top + size
    /\ vm'.calls = Append(vm.calls, [ret |-> vm.ip + 4, base |-> vm.top,
                                     depth |-> Len(Drop(ops, n)), size |-> size])
    /\ vm'.tries = vm.tries /\ vm'.heap = vm.heap /\ vm'.out = vm.out
    /\ vm'.outcome = "running" /\ Contents(cache') = Drop(ops, n)

(* A call that enters a function where the canonical one does.               *)
LEMMA EntersAsCanonical ==
    ASSUME NEW L, NEW V, VMInv(L, V), opt' = opt,
           NEW m, NEW q, NEW w, NEW ops, Here(L, V, m, q, w, ops), opt.origin[vm.ip + 4] = q + 4,
           NEW n \in 0 .. Len(ops), NEW q1, NEW size \in Nat, Entered(q1, size, n, ops),
           NEW q2, q2 = opt.origin[q1], NEW rest, rest = Drop(ops, n), NEW args, args = Args(ops, n),
           Canonical(Reference, At3(m, q, w, ops)) =
               Enter(At3(m, q, w, ops), 4, q2, size, rest, args)
    PROVE  AsCanonical
<1>1. PICK s : s = Enter(At3(m, q, w, ops), 4, q2, size, rest, args)
  OBVIOUS
<1>2. PICK r : r = q + 4
  OBVIOUS
<1>3. /\ IsMachine(m) /\ m.outcome = "running" /\ w = vm.locals /\ m.top = vm.top
      /\ m.out = vm.out /\ m.calls = CallsFrom(opt.origin, vm.calls)
      /\ m.tries = TriesFrom(opt.origin, vm.tries) /\ m.heap = vm.heap /\ ops \in Seq(V)
      /\ vm.ip \in Nat
  BY DEF Here, Before
<1>4. /\ IsMachine(s) /\ s.ip = q2 /\ s.locals = WriteCells(w, m.top, args)
      /\ s.ops = rest /\ s.top = m.top + size
      /\ s.calls = Append(m.calls, [ret |-> r, base |-> m.top, depth |-> Len(rest),
                                    size |-> size])
      /\ s.tries = m.tries /\ s.heap = m.heap /\ s.out = m.out /\ s.outcome = m.outcome
  <2>1. /\ IsMachine(m) /\ r = q + 4 /\ m.outcome = "running"
        /\ s = Enter(At3(m, q, w, ops), 4, q2, size, rest, args)
    BY <1>1, <1>2, <1>3
  <2> QED
    BY ONLY <2>1, EnteredIs
<1>5. PICK h \in Nat : h = Len(ops)
  BY <1>3, LenProperties
<1>6. PICK depth \in Nat : depth = Len(rest)
  BY <1>3, <1>5, OperandsHeld
<1>7. s.calls = CallsFrom(opt.origin, vm'.calls)
  <2>1. PICK ret : ret = vm.ip + 4
    OBVIOUS
  <2>2. ret \in Nat /\ opt.origin[ret] = r
    BY <1>2, <1>3, <2>1
  <2>3. PICK f, g : /\ f = [ret |-> ret, base |-> vm.top, depth |-> depth, size |-> size]
                    /\ g = [ret |-> r, base |-> vm.top, depth |-> depth, size |-> size]
    OBVIOUS
  <2>4. PICK org : org = opt.origin
    OBVIOUS
  <2>5. vm.calls \in FrameRecords /\ vm.top \in Nat
    BY DEF VMInv, MachineOK
  <2>6. CallsFrom(org, Append(vm.calls, f)) = Append(CallsFrom(org, vm.calls), g)
    <3>1. PICK calls \in FrameRecords : calls = vm.calls
      BY <2>5
    <3>2. PICK base \in Nat : base = vm.top
      BY <2>5
    <3>3. /\ f = [ret |-> ret, base |-> base, depth |-> depth, size |-> size]
          /\ g = [ret |-> org[ret], base |-> base, depth |-> depth, size |-> size]
          /\ ret \in Nat
      BY <2>2, <2>3, <2>4, <3>2
    <3>4. CallsFrom(org, Append(calls, f)) = Append(CallsFrom(org, calls), g)
      <4>1. depth \in Nat /\ size \in Nat /\ calls \in FrameRecords /\ base \in Nat
        BY <1>6, <3>1, <3>2
      <4> QED
        BY ONLY <3>3, <4>1, MappedEnter
    <3> QED
      BY <3>1, <3>4
  <2>7. vm'.calls = Append(vm.calls, f)
    BY <1>6, <2>1, <2>3 DEF Entered
  <2>8. s.calls = Append(m.calls, g)
    BY <1>3, <1>4, <1>6, <2>3
  <2> QED
    BY <1>3, <2>4, <2>6, <2>7, <2>8
<1>8. /\ s.outcome = "running" /\ vm'.outcome = "running" /\ s.ip = opt.origin[vm'.ip]
      /\ s.locals = vm'.locals /\ s.ops = Contents(cache') /\ s.top = vm'.top
      /\ s.tries = TriesFrom(opt.origin, vm'.tries) /\ s.heap = vm'.heap /\ s.out = vm'.out
  BY <1>3, <1>4 DEF Entered
<1>9. s = Canonical(Reference, At3(m, q, w, ops))
  BY <1>1
<1>10. Here(L, V, m, q, w, ops) /\ opt' = opt /\ IsMachine(s)
  BY <1>4
<1> QED
  BY ONLY <1>7, <1>8, <1>9, <1>10, StepsTo

(* The arguments that are taken from registers and memory are the topmost    *)
(* operands.                                                                 *)
LEMMA FastEntered ==
    ASSUME NEW L, NEW V, VMInv(L, V), vm.outcome = "running",
           Byte(opt.code, vm.ip) \in Calls, NEW n \in Nat,
           n = Takes(Byte(opt.code, vm.ip), Byte(opt.code, vm.ip + 3)),
           NEW m, NEW q, NEW w, NEW ops, Here(L, V, m, q, w, ops),
           NEW q1, NEW size, EnterFast(4, q1, size, n)
    PROVE  /\ n \in 0 .. Len(ops) /\ Entered(q1, size, n, ops)
           /\ Arguments(cache, n) = Args(ops, n)
<1>1. PICK h \in Nat : Height(cache) = h
  BY Untouched
<1>2. h >= n /\ IsCache(cache, V)
  BY <1>1, EnoughOnStack, Untouched
<1>3. n \in 0 .. h /\ Len(ops) = h /\ ops = Contents(cache) /\ ops \in Seq(V)
  BY <1>1, <1>2 DEF Here
<1>4. Contents(TAKE_ARGS(cache, n)) = Drop(ops, n) /\ Arguments(cache, n) = Args(ops, n)
  BY <1>1, <1>2, <1>3, ContentsTaken
<1>5. Len(TAKE_ARGS(cache, n)[1]) = Len(Drop(ops, n))
  <2>1. n \in 0 .. Height(cache)
    BY <1>1, <1>3
  <2>2. Len(TAKE_ARGS(cache, n)[1]) = h - n
    BY <1>1, <1>2, <2>1, TakeArgsStacks
  <2>3. Len(Drop(ops, n)) = h - n
    <3>1. ops \in Seq(V) /\ Len(ops) = h /\ n \in 0 .. h
      BY <1>3
    <3>2. PICK d \in 0 .. h : d = h - n
      BY <1>1, <1>3
    <3>3. Drop(ops, n) = SubSeq(ops, 1, d)
      BY <3>1, <3>2 DEF Drop
    <3>4. d \in 0 .. Len(ops)
      BY <3>1
    <3>5. Len(SubSeq(ops, 1, d)) = d
      BY <3>1, <3>4, Prefix
    <3> QED
      BY <3>2, <3>3, <3>5
  <2> QED
    BY <2>2, <2>3
<1>6. PICK depth, args : depth = Len(Drop(ops, n)) /\ args = Args(ops, n)
  OBVIOUS
<1>7. vm' = [vm EXCEPT !.calls = Append(@, [ret |-> vm.ip + 4, base |-> vm.top,
                                            depth |-> depth, size |-> size]),
                       !.locals = WriteCells(@, vm.top, args),
                       !.top = @ + size,
                       !.ip = q1]
      /\ cache' = TAKE_ARGS(cache, n)
  BY <1>4, <1>5, <1>6 DEF EnterFast
<1>8. DOMAIN vm = VMFields
  BY DEF VMInv, MachineOK
<1>9. Entered(q1, size, n, ops)
  BY <1>4, <1>6, <1>7, <1>8 DEF Entered, VMFields
<1> QED
  BY <1>3, <1>4, <1>9

(* What OP_CALL does.                                                        *)
LEMMA CallsEnter ==
    ASSUME NEW m, DOMAIN m = SyncedFields, NEW q, NEW w, NEW ops,
           Byte(Reference.code, q) = Op.CALL, NEW n, n = Byte(Reference.code, q + 3),
           NEW f, f = UInt16(Reference.code, q + 1), NEW q2, q2 = Reference.functions[f],
           NEW size, size = FrameSize(Reference, f, n),
           NEW rest, rest = Drop(ops, n), NEW args, args = Args(ops, n)
    PROVE  Canonical(Reference, At3(m, q, w, ops)) =
               Enter(At3(m, q, w, ops), 4, q2, size, rest, args)
<1>1. PICK s : s = At3(m, q, w, ops)
  OBVIOUS
<1>2. s.ip = q /\ s.ops = ops
  BY <1>1, MovedState
<1>3. ExecAt(Reference, s, q, Op.CALL) =
          ExecCall(Reference, s, UInt16(Reference.code, q + 1), Byte(Reference.code, q + 3))
  BY OpNumbers DEF ExecAt, Binaries
<1>4. Canonical(Reference, s) = ExecCall(Reference, s, f, n)
  BY <1>2, <1>3 DEF Canonical
<1> QED
  BY <1>1, <1>2, <1>4 DEF ExecCall

(* What OP_INVOKE_METHOD does.                                               *)
LEMMA InvokesEnter ==
    ASSUME NEW m, DOMAIN m = SyncedFields, NEW q, NEW w, NEW ops,
           Byte(Reference.code, q) = Op.INVOKE_METHOD, NEW argc, argc = Byte(Reference.code, q + 3),
           NEW n, n = argc + 1, NEW name, name = Reference.strings[UInt16(Reference.code, q + 1)],
           NEW rest, rest = Drop(ops, n), NEW args, args = Args(ops, n),
           NEW v, v = args[1], NEW obj, obj = m.heap[v[2]], NEW f, f = Method(Reference, obj, name),
           NEW q2, q2 = Reference.functions[f], NEW size, size = FrameSize(Reference, f, n)
    PROVE  /\ IsObj(v) /\ HasMethod(Reference, obj, name) =>
                  Canonical(Reference, At3(m, q, w, ops)) =
                      Enter(At3(m, q, w, ops), 4, q2, size, rest, args)
           /\ ~(IsObj(v) /\ HasMethod(Reference, obj, name)) =>
                  Canonical(Reference, At3(m, q, w, ops)) =
                      At3(m, q + 4, w, Append(rest, Nil))
<1>1. PICK s : s = At3(m, q, w, ops)
  OBVIOUS
<1>2. s.ip = q /\ s.ops = ops /\ s.heap = m.heap
  BY <1>1, MovedState
<1>3. ExecAt(Reference, s, q, Op.INVOKE_METHOD) =
          ExecInvoke(Reference, s, Reference.strings[UInt16(Reference.code, q + 1)],
                     Byte(Reference.code, q + 3))
  BY OpNumbers DEF ExecAt, Binaries
<1>4. Canonical(Reference, s) = ExecInvoke(Reference, s, name, argc)
  BY <1>2, <1>3 DEF Canonical
<1>5. PICK ops1 : ops1 = Append(rest, Nil)
  OBVIOUS
<1>6. Advance(s, 4, ops1) = At3(m, q + 4, w, ops1)
  BY <1>1, MovedOn
<1>7. ExecInvoke(Reference, s, name, argc) =
          IF IsObj(v) /\ HasMethod(Reference, obj, name)
          THEN Enter(s, 4, q2, size, rest, args) ELSE Advance(s, 4, ops1)
  BY <1>2, <1>5 DEF ExecInvoke
<1> QED
  BY <1>1, <1>4, <1>5, <1>6, <1>7

(* Both codes give a function the same frame.                                *)
LEMMA SameSizes ==
    ASSUME NEW L, Matching(L)
    PROVE  /\ \A f, n : FrameSize(Reference, f, n) = FrameSize(opt, f, n)
           /\ \A obj, name : /\ HasMethod(Reference, obj, name) <=> HasMethod(opt, obj, name)
                             /\ Method(Reference, obj, name) = Method(opt, obj, name)
           /\ \A f \in DOMAIN opt.functions :
                 Reference.functions[f] = opt.origin[opt.functions[f]]
<1>1. /\ Reference.functions = chunk.functions /\ Reference.vtables = opt.vtables
      /\ Reference.frames = opt.frames
  BY ReferenceIs
<1>2. \A f, n : FrameSize(Reference, f, n) = FrameSize(opt, f, n)
  BY <1>1 DEF FrameSize
<1>3. \A obj, name : /\ HasMethod(Reference, obj, name) <=> HasMethod(opt, obj, name)
                     /\ Method(Reference, obj, name) = Method(opt, obj, name)
  BY <1>1 DEF HasMethod, Method
<1> QED
  BY <1>1, <1>2, <1>3 DEF Matching, Faithful

LEMMA CallCanonical ==
    ASSUME NEW L, NEW V, VMInv(L, V), Matching(L), Call
    PROVE  AsCanonical
<1>1. PICK n, f : n = Byte(code, vm.ip + 3) /\ f = U(1)
  OBVIOUS
<1>2. At(Op.CALL) /\ Op.CALL \in Calls
  BY DEF Call, Calls
<1>3. /\ vm.outcome = "running" /\ Byte(opt.code, vm.ip) = Op.CALL
      /\ n = Byte(opt.code, vm.ip + 3) /\ n \in Nat
      /\ f = UInt16(opt.code, vm.ip + 1) /\ Resolved(opt, L, vm.ip, Op.CALL)
  BY <1>1, <1>2, ArgumentCount
<1>4. PICK q1, size : q1 = opt.functions[f] /\ size = FrameSize(opt, f, n)
  OBVIOUS
<1>5. f \in DOMAIN opt.functions /\ size \in Nat
  BY <1>3, <1>4, OpNumbers, FrameTable DEF Resolved
<1>6. EnterFast(4, q1, size, n) /\ opt' = opt
  BY <1>1, <1>4 DEF Call, Plain
<1>7. n = Takes(Byte(opt.code, vm.ip), Byte(opt.code, vm.ip + 3))
      /\ Byte(opt.code, vm.ip) \in Calls
  BY <1>2, <1>3, CallTable
<1>8. PICK m, q, w, ops : Here(L, V, m, q, w, ops)
  BY <1>3, StartsHere
<1>9. n \in 0 .. Len(ops) /\ Entered(q1, size, n, ops)
  BY <1>3, <1>6, <1>7, <1>8, FastEntered
<1>10. /\ Byte(Reference.code, q) = Op.CALL /\ f = UInt16(Reference.code, q + 1)
       /\ n = Byte(Reference.code, q + 3) /\ opt.origin[vm.ip + 4] = q + 4
  BY <1>3, <1>8 DEF Here, Before, StandsFor
<1>11. PICK q2, rest, args : /\ q2 = opt.origin[q1] /\ rest = Drop(ops, n)
                             /\ args = Args(ops, n)
  OBVIOUS
<1>12. q2 = Reference.functions[f] /\ size = FrameSize(Reference, f, n)
  BY <1>4, <1>5, <1>11, SameSizes
<1>13. Canonical(Reference, At3(m, q, w, ops)) =
           Enter(At3(m, q, w, ops), 4, q2, size, rest, args)
  <2>1. DOMAIN m = SyncedFields
    BY <1>8 DEF Here
  <2> QED
    BY <1>10, <1>11, <1>12, <2>1, CallsEnter
<1> QED
  BY <1>5, <1>6, <1>8, <1>9, <1>10, <1>11, <1>13, EntersAsCanonical

LEMMA CallFastCanonical ==
    ASSUME NEW L, NEW V, VMInv(L, V), Matching(L), CallFast
    PROVE  AsCanonical
<1>1. PICK n \in 0 .. 1 : At(Op.CALL_FAST_0 + n) /\ Plain
                          /\ EnterFast(4, U(1), Byte(code, vm.ip + 3), n)
  BY DEF CallFast
<1>2. PICK o : o = Op.CALL_FAST_0 + n
  OBVIOUS
<1>3. o = IF n = 0 THEN Op.CALL_FAST_0 ELSE Op.CALL_FAST_1
  BY <1>2, OpNumbers
<1>4. o \in Calls /\ At(o)
  BY <1>1, <1>2, <1>3 DEF Calls
<1>5. PICK q1, size : q1 = U(1) /\ size = Byte(code, vm.ip + 3)
  OBVIOUS
<1>6. /\ vm.outcome = "running" /\ Byte(opt.code, vm.ip) = o
      /\ size = Byte(opt.code, vm.ip + 3) /\ size \in Nat
      /\ q1 = UInt16(opt.code, vm.ip + 1)
  BY <1>4, <1>5, ArgumentCount
<1>7. EnterFast(4, q1, size, n) /\ opt' = opt
  BY <1>1, <1>5 DEF Plain
<1>8. n = Takes(Byte(opt.code, vm.ip), Byte(opt.code, vm.ip + 3)) /\ n \in Nat
      /\ Byte(opt.code, vm.ip) \in Calls
  <2>1. Takes(o, Byte(opt.code, vm.ip + 3)) = n
    BY <1>3, CallTable
  <2> QED
    BY <1>4, <1>6, <2>1
<1>9. PICK m, q, w, ops : Here(L, V, m, q, w, ops)
  BY <1>6, StartsHere
<1>10. n \in 0 .. Len(ops) /\ Entered(q1, size, n, ops)
  BY <1>6, <1>7, <1>8, <1>9, FastEntered
<1>11. PICK f : f = UInt16(Reference.code, q + 1)
  OBVIOUS
<1>12. /\ Byte(Reference.code, q) = Op.CALL /\ f \in DOMAIN opt.functions
       /\ n = Byte(Reference.code, q + 3) /\ opt.origin[vm.ip + 4] = q + 4
       /\ q1 = opt.functions[f] /\ size = FrameSize(opt, f, n)
  BY <1>2, <1>6, <1>9, <1>11 DEF Here, Before, StandsFor
<1>13. PICK q2, rest, args : /\ q2 = opt.origin[q1] /\ rest = Drop(ops, n)
                             /\ args = Args(ops, n)
  OBVIOUS
<1>14. q2 = Reference.functions[f] /\ size = FrameSize(Reference, f, n)
  BY <1>12, <1>13, SameSizes
<1>15. Canonical(Reference, At3(m, q, w, ops)) =
           Enter(At3(m, q, w, ops), 4, q2, size, rest, args)
  <2>1. DOMAIN m = SyncedFields
    BY <1>9 DEF Here
  <2> QED
    BY <1>11, <1>12, <1>13, <1>14, <2>1, CallsEnter
<1> QED
  BY <1>6, <1>7, <1>9, <1>10, <1>12, <1>13, <1>15, EntersAsCanonical

(* The arguments of a call, in registers or not.                             *)
LEMMA ArgumentsHere ==
    ASSUME NEW L, NEW V, VMInv(L, V), vm.outcome = "running",
           Byte(opt.code, vm.ip) \in Calls, NEW n \in Nat,
           n = Takes(Byte(opt.code, vm.ip), Byte(opt.code, vm.ip + 3)),
           NEW m, NEW q, NEW w, NEW ops, Here(L, V, m, q, w, ops)
    PROVE  n \in 0 .. Len(ops) /\ Arguments(cache, n) = Args(ops, n)
<1>1. PICK h \in Nat : Height(cache) = h
  BY Untouched
<1>2. h >= n /\ IsCache(cache, V)
  BY <1>1, EnoughOnStack, Untouched
<1>3. n \in 0 .. h /\ Len(ops) = h /\ ops = Contents(cache)
  BY <1>1, <1>2 DEF Here
<1>4. Arguments(cache, n) = Args(ops, n)
  BY <1>1, <1>2, <1>3, ContentsTaken
<1> QED
  BY <1>3, <1>4

LEMMA ContentsInMemory ==
    ASSUME NEW V, NEW ops \in Seq(V)
    PROVE  Contents(<<ops, <<>>>>) = ops
<1>1. ops \o <<>> = ops
  BY ConcatEmptySeq
<1> QED
  BY <1>1 DEF Contents

(* What the handler of a call does.                                          *)
LEMMA HandlerEnters ==
    ASSUME NEW L, NEW V, VMInv(L, V), vm.outcome = "running",
           NEW m, NEW q, NEW w, NEW ops, Here(L, V, m, q, w, ops),
           NEW argc \in Nat, NEW n, n = argc + 1, n \in 0 .. Len(ops), NEW name,
           Resume(ExecInvoke(opt, Synced, name, argc)), opt' = opt,
           NEW v, v = Args(ops, n)[1], NEW obj, obj = vm.heap[v[2]],
           NEW f, f = Method(opt, obj, name),
           NEW q1, q1 = opt.functions[f], NEW size, size = FrameSize(opt, f, n)
    PROVE  /\ IsObj(v) /\ HasMethod(opt, obj, name) => Entered(q1, size, n, ops)
           /\ ~(IsObj(v) /\ HasMethod(opt, obj, name)) =>
                  \E c : Flat(vm.ip + 4, w, c) /\ Contents(c) = Append(Drop(ops, n), Nil)
<1>1. /\ ops \in Seq(V) /\ ops = Contents(cache) /\ w = vm.locals
  BY DEF Here
<1>2. PICK s : s = Synced
  OBVIOUS
<1>3. /\ DOMAIN s = SyncedFields /\ s.ops = ops
      /\ s.ip = vm.ip /\ s.locals = vm.locals /\ s.top = vm.top
      /\ s.calls = vm.calls /\ s.tries = vm.tries /\ s.heap = vm.heap
      /\ s.out = vm.out /\ s.outcome = vm.outcome
  <2>1. Synced.ops = Contents(cache)
    BY DEF Synced
  <2> QED
    BY <1>1, <1>2, <2>1, SyncedIs
<1>4. PICK rest, args : rest = Drop(ops, n) /\ args = Args(ops, n)
  OBVIOUS
<1>5. rest \in Seq(V)
  <2>1. PICK h \in Nat : h = Len(ops)
    BY <1>1, LenProperties
  <2>5. n \in 0 .. h
    BY <2>1
  <2>2. PICK d \in 0 .. h : d = h - n
    BY <2>5
  <2>3. rest = SubSeq(ops, 1, d)
    BY <1>4, <2>1, <2>2 DEF Drop
  <2>4. d \in 0 .. Len(ops)
    BY <2>1
  <2> QED
    BY <1>1, <2>3, <2>4, Prefix
<1>7. PICK m1 : m1 = ExecInvoke(opt, s, name, argc)
  OBVIOUS
<1>8. Resume(m1)
  BY <1>2, <1>7
<1>10. m1 = IF IsObj(v) /\ HasMethod(opt, obj, name)
            THEN Enter(s, 4, q1, size, rest, args)
            ELSE Advance(s, 4, Append(rest, Nil))
  BY <1>3, <1>4, <1>7 DEF ExecInvoke
<1>11. CASE IsObj(v) /\ HasMethod(opt, obj, name)
  <2>1. PICK calls, locals : /\ calls = Append(vm.calls, [ret |-> vm.ip + 4, base |-> vm.top,
                                                          depth |-> Len(rest), size |-> size])
                             /\ locals = WriteCells(vm.locals, vm.top, args)
    OBVIOUS
  <2>2. m1 = [s EXCEPT !.calls = calls, !.locals = locals, !.top = vm.top + size, !.ops = rest,
                       !.ip = q1]
    BY <1>3, <1>10, <1>11, <2>1 DEF Enter
  <2>3. /\ DOMAIN m1 = SyncedFields /\ m1.ops = rest /\ m1.ip = q1 /\ m1.calls = calls
        /\ m1.locals = locals /\ m1.top = vm.top + size /\ m1.tries = vm.tries
        /\ m1.heap = vm.heap /\ m1.out = vm.out /\ m1.outcome = "running"
    BY <1>3, <2>2 DEF SyncedFields, VMFields
  <2>4. /\ cache' = <<rest, <<>>>> /\ vm'.ip = q1 /\ vm'.calls = calls
        /\ vm'.locals = locals /\ vm'.top = vm.top + size /\ vm'.tries = vm.tries
        /\ vm'.heap = vm.heap /\ vm'.out = vm.out /\ vm'.outcome = "running"
    BY <1>8, <2>3, Resumed
  <2>5. Contents(cache') = rest
    BY <1>5, <2>4, ContentsInMemory
  <2>6. Entered(q1, size, n, ops)
    BY <1>4, <2>1, <2>4, <2>5 DEF Entered
  <2> QED
    BY <1>11, <2>6
<1>12. CASE ~(IsObj(v) /\ HasMethod(opt, obj, name))
  <2>1. PICK ops1 : ops1 = Append(rest, Nil)
    OBVIOUS
  <2>2. ops1 \in Seq(V)
    BY <1>5, <2>1, AppendProperties, Untouched
  <2>3. /\ DOMAIN m1 = SyncedFields /\ m1.ops = ops1 /\ m1.ip = vm.ip + 4
        /\ m1.calls = vm.calls /\ m1.locals = vm.locals /\ m1.top = vm.top
        /\ m1.tries = vm.tries /\ m1.heap = vm.heap /\ m1.out = vm.out
        /\ m1.outcome = "running"
    BY <1>3, <1>10, <1>12, <2>1 DEF Advance, SyncedFields, VMFields
  <2>4. PICK c : c = cache'
    OBVIOUS
  <2>5. /\ c = <<ops1, <<>>>> /\ vm'.ip = vm.ip + 4 /\ vm'.calls = vm.calls
        /\ vm'.locals = vm.locals /\ vm'.top = vm.top /\ vm'.tries = vm.tries
        /\ vm'.heap = vm.heap /\ vm'.out = vm.out /\ vm'.outcome = "running"
    BY <1>8, <2>3, <2>4, Resumed
  <2>6. Contents(c) = ops1
    BY <2>2, <2>5, ContentsInMemory
  <2>7. Flat(vm.ip + 4, w, c)
    BY <1>1, <2>4, <2>5 DEF Flat
  <2> QED
    BY <1>4, <1>12, <2>1, <2>6, <2>7
<1> QED
  BY <1>11, <1>12

(* A cached method is the one the class's table gives.                       *)
LEMMA InvokeMethodICCanonical ==
    ASSUME NEW L, NEW V, VMInv(L, V), Matching(L), InvokeMethodIC
    PROVE  AsCanonical
<1>1. PICK k, argc : k = U(1) + 1 /\ argc = Byte(code, vm.ip + 3)
  OBVIOUS
<1>2. At(Op.INVOKE_METHOD_IC) /\ Op.INVOKE_METHOD_IC \in Calls /\ opt' = opt
  BY DEF InvokeMethodIC, Calls
<1>3. /\ vm.outcome = "running" /\ Byte(opt.code, vm.ip) = Op.INVOKE_METHOD_IC
      /\ argc = Byte(opt.code, vm.ip + 3) /\ argc \in Nat
      /\ U(1) = UInt16(opt.code, vm.ip + 1)
      /\ Resolved(opt, L, vm.ip, Op.INVOKE_METHOD_IC)
  BY <1>1, <1>2, ArgumentCount
<1>4. k \in DOMAIN methodICs
  <2>1. k \in DOMAIN opt.methods
    BY <1>1, <1>3, OpNumbers DEF Resolved
  <2> QED
    BY <2>1 DEF VMInv, SitesOK
<1>5. PICK n \in Nat : n = argc + 1
  BY <1>3
<1>6. PICK v, name : v = Arguments(cache, n)[1] /\ name = opt.strings[opt.methods[k]]
  OBVIOUS
<1>7. /\ Byte(opt.code, vm.ip) \in Calls
      /\ n = Takes(Byte(opt.code, vm.ip), Byte(opt.code, vm.ip + 3))
  BY <1>2, <1>3, <1>5, CallTable
<1>8. PICK m, q, w, ops : Here(L, V, m, q, w, ops)
  BY <1>3, StartsHere
<1>9. n \in 0 .. Len(ops) /\ v = Args(ops, n)[1]
  BY <1>3, <1>6, <1>7, <1>8, ArgumentsHere
<1>10. /\ Byte(Reference.code, q) = Op.INVOKE_METHOD /\ argc = Byte(Reference.code, q + 3)
       /\ name = Reference.strings[UInt16(Reference.code, q + 1)]
       /\ opt.origin[vm.ip + 4] = q + 4
  <2>1. /\ Byte(chunk.code, q) = Op.INVOKE_METHOD /\ argc = Byte(chunk.code, q + 3)
        /\ opt.methods[k] = UInt16(chunk.code, q + 1) /\ opt.origin[vm.ip + 4] = q + 4
    BY <1>1, <1>3, <1>8 DEF Here, Before, StandsFor
  <2>2. Reference.code = chunk.code /\ Reference.strings = opt.strings
    BY ReferenceIs
  <2> QED
    BY <1>6, <2>1, <2>2
<1>11. PICK obj, f : obj = vm.heap[v[2]] /\ f = Method(opt, obj, name)
  OBVIOUS
<1>12. PICK q1, size : q1 = opt.functions[f] /\ size = FrameSize(opt, f, n)
  OBVIOUS
<1>13. PICK q2, rest, args : /\ q2 = opt.origin[q1] /\ rest = Drop(ops, n)
                             /\ args = Args(ops, n)
  OBVIOUS
<1>14. /\ DOMAIN m = SyncedFields /\ m.heap = vm.heap
  BY <1>8 DEF Here, Before
<1>15. /\ f = Method(Reference, obj, name) /\ size = FrameSize(Reference, f, n)
       /\ HasMethod(Reference, obj, name) <=> HasMethod(opt, obj, name)
  BY <1>11, <1>12, SameSizes
<1>16. PICK q3 : q3 = Reference.functions[f]
  OBVIOUS
<1>17. /\ IsObj(v) /\ HasMethod(Reference, obj, name) =>
              Canonical(Reference, At3(m, q, w, ops)) =
                  Enter(At3(m, q, w, ops), 4, q3, size, rest, args)
       /\ ~(IsObj(v) /\ HasMethod(Reference, obj, name)) =>
              Canonical(Reference, At3(m, q, w, ops)) =
                  At3(m, q + 4, w, Append(rest, Nil))
  <2>1. obj = m.heap[v[2]] /\ v = args[1]
    BY <1>9, <1>11, <1>13, <1>14
  <2>2. f = Method(Reference, obj, name) /\ size = FrameSize(Reference, f, n)
    BY <1>15
  <2> QED
    BY ONLY <1>5, <1>10, <1>13, <1>14, <1>16, <2>1, <2>2, InvokesEnter
<1>18. ASSUME IsObj(v), HasMethod(opt, obj, name), Entered(q1, size, n, ops)
       PROVE  AsCanonical
  <2>1. f \in DOMAIN opt.functions
    <3>1. obj.cls \in DOMAIN opt.vtables /\ name \in DOMAIN opt.vtables[obj.cls]
          /\ f = opt.vtables[obj.cls][name]
      BY <1>11, <1>18 DEF HasMethod, Method
    <3> QED
      BY <3>1 DEF VMInv, Verified
  <2>2. q3 = q2
    BY <1>12, <1>13, <1>16, <2>1, SameSizes
  <2>3. size \in Nat
    BY <1>12, FrameTable
  <2>4. Canonical(Reference, At3(m, q, w, ops)) =
            Enter(At3(m, q, w, ops), 4, q2, size, rest, args)
    BY <1>15, <1>17, <1>18, <2>2
  <2> QED
    BY <1>2, <1>8, <1>9, <1>10, <1>13, <1>18, <2>3, <2>4, EntersAsCanonical
<1>19. CASE Hit(methodICs[k], v)
  <2>1. EnterFast(4, methodICs[k].entry, methodICs[k].size, n)
    BY <1>1, <1>5, <1>6, <1>19 DEF InvokeMethodIC
  <2>2. PICK site : site = methodICs[k]
    OBVIOUS
  <2>3. MethodSiteOK(L, vm.heap, k, site) /\ site.shape # 0 /\ IsObj(v) /\ v[2] = site.shape
    BY <1>4, <1>19, <2>2 DEF VMInv, SitesOK, Hit, Shape
  <2>4. vm.ip \in DOMAIN L
    BY <1>8 DEF Here
  <2>5. /\ HasMethod(opt, obj, name) /\ site.entry = q1
        /\ site.size = FrameSize(opt, f, argc + 1)
    BY <1>1, <1>3, <1>6, <1>11, <1>12, <2>3, <2>4 DEF MethodSiteOK
  <2>6. EnterFast(4, q1, size, n)
    BY <1>5, <1>12, <2>1, <2>2, <2>5
  <2>7. Entered(q1, size, n, ops)
    BY <1>3, <1>7, <1>8, <2>6, FastEntered
  <2> QED
    BY <1>18, <2>3, <2>5, <2>7
<1>20. CASE ~Hit(methodICs[k], v) /\ IsObj(v) /\ Shape(v[2]) # 0 /\ HasMethod(opt, obj, name)
  <2>1. EnterFast(4, q1, size, n)
    BY <1>1, <1>5, <1>6, <1>11, <1>12, <1>20 DEF InvokeMethodIC
  <2>2. Entered(q1, size, n, ops)
    BY <1>3, <1>7, <1>8, <2>1, FastEntered
  <2> QED
    BY <1>18, <1>20, <2>2
<1>21. CASE /\ ~Hit(methodICs[k], v)
            /\ ~(IsObj(v) /\ Shape(v[2]) # 0 /\ HasMethod(opt, obj, name))
  <2>1. Resume(ExecInvoke(opt, Synced, name, argc))
    BY <1>1, <1>5, <1>6, <1>11, <1>21 DEF InvokeMethodIC
  <2>2. /\ IsObj(v) /\ HasMethod(opt, obj, name) => Entered(q1, size, n, ops)
        /\ ~(IsObj(v) /\ HasMethod(opt, obj, name)) =>
               \E c : Flat(vm.ip + 4, w, c) /\ Contents(c) = Append(Drop(ops, n), Nil)
    <3>1. VMInv(L, V) /\ vm.outcome = "running" /\ opt' = opt /\ argc \in Nat
      BY <1>2, <1>3
    <3> QED
      BY ONLY <1>5, <1>8, <1>9, <1>11, <1>12, <2>1, <3>1, HandlerEnters
  <2>3. CASE IsObj(v) /\ HasMethod(opt, obj, name)
    BY <1>18, <2>2, <2>3
  <2>4. CASE ~(IsObj(v) /\ HasMethod(opt, obj, name))
    <3>1. PICK c : Flat(vm.ip + 4, w, c) /\ Contents(c) = Append(rest, Nil)
      BY <1>13, <2>2, <2>4
    <3>2. Canonical(Reference, At3(m, q, w, ops)) = At3(m, q + 4, w, Append(rest, Nil))
      BY <1>15, <1>17, <2>4
    <3> QED
      BY <1>8, <1>10, <3>1, <3>2, StepHere
  <2> QED
    BY <2>3, <2>4
<1> QED
  BY <1>19, <1>20, <1>21

(* The machine after a return from the top level.                            *)
LEMMA LeftIs ==
    ASSUME NEW m, IsMachine(m), NEW q, NEW w, NEW ops, NEW v, m.calls = <<>>,
           NEW s, s = Return(At3(m, q, w, ops), v)
    PROVE  /\ IsMachine(s) /\ s.ip = q /\ s.locals = w /\ s.ops = ops /\ s.top = m.top
           /\ s.calls = m.calls /\ s.tries = m.tries /\ s.heap = m.heap /\ s.out = m.out
           /\ s.outcome = "halted"
<1>1. DOMAIN m = SyncedFields
  BY MachineFields
<1>2. PICK t : t = At3(m, q, w, ops)
  OBVIOUS
<1>3. /\ DOMAIN t = SyncedFields /\ t.ip = q /\ t.locals = w /\ t.ops = ops /\ t.top = m.top
      /\ t.calls = m.calls /\ t.tries = m.tries /\ t.heap = m.heap /\ t.out = m.out
  BY ONLY <1>1, <1>2, MovedState
<1>4. s = [t EXCEPT !.outcome = "halted"]
  BY <1>2, <1>3 DEF Return
<1>5. IsMachine(s)
  <2>1. IsMachine(t)
    BY <1>2, MovedIs
  <2> QED
    BY <1>4, <2>1 DEF IsMachine, SyncedFields, VMFields
<1> QED
  BY <1>3, <1>4, <1>5 DEF SyncedFields, VMFields

(* And from a frame.                                                         *)
LEMMA ReturnedIs ==
    ASSUME NEW m, IsMachine(m), NEW q, NEW w, NEW ops, NEW v, m.calls # <<>>,
           NEW n \in Nat, n = Len(m.calls), NEW f, f = m.calls[n],
           NEW d \in Nat, d = f.depth, NEW s, s = Return(At3(m, q, w, ops), v)
    PROVE  /\ IsMachine(s) /\ s.ip = f.ret /\ s.locals = w
           /\ s.ops = Append(SubSeq(ops, 1, d), v) /\ s.top = f.base
           /\ s.calls = SubSeq(m.calls, 1, n - 1) /\ s.tries = m.tries
           /\ s.heap = m.heap /\ s.out = m.out /\ s.outcome = m.outcome
<1>1. DOMAIN m = SyncedFields
  BY MachineFields
<1>2. PICK t : t = At3(m, q, w, ops)
  OBVIOUS
<1>3. /\ DOMAIN t = SyncedFields /\ t.ip = q /\ t.locals = w /\ t.ops = ops /\ t.top = m.top
      /\ t.calls = m.calls /\ t.tries = m.tries /\ t.heap = m.heap /\ t.out = m.out
      /\ t.outcome = m.outcome
  BY ONLY <1>1, <1>2, MovedState
<1>4. PICK rest, left : rest = Append(SubSeq(ops, 1, d), v)
                        /\ left = SubSeq(m.calls, 1, n - 1)
  OBVIOUS
<1>5. s = [t EXCEPT !.calls = left, !.top = f.base, !.ops = rest, !.ip = f.ret]
  BY <1>2, <1>3, <1>4 DEF Return
<1>6. IsMachine(s)
  <2>1. IsMachine(t)
    BY <1>2, MovedIs
  <2> QED
    BY <1>5, <2>1 DEF IsMachine, SyncedFields, VMFields
<1> QED
  BY <1>3, <1>4, <1>5, <1>6 DEF SyncedFields, VMFields

LEMMA RetCanonical ==
    ASSUME NEW L, NEW V, VMInv(L, V), Matching(L), Ret
    PROVE  AsCanonical
<1>1. PICK o \in {Op.RET, Op.RET_FAST} : At(o)
  BY DEF Ret
<1>2. vm.outcome = "running" /\ Byte(opt.code, vm.ip) = o
  BY <1>1, RetTable, Recognised
<1>3. PICK h \in Nat : Height(cache) = h
  BY Untouched
<1>4. h >= 1 /\ IsCache(cache, V)
  <2>1. 1 = Takes(Byte(opt.code, vm.ip), Byte(opt.code, vm.ip + 3)) /\ 1 \in Nat
    BY <1>2, RetTable
  <2> QED
    BY <1>2, <1>3, <2>1, EnoughOnStack, Untouched
<1>5. opt' = opt
  BY DEF Ret, Plain
<1>6. PICK m, q, w, ops : Here(L, V, m, q, w, ops)
  BY <1>2, StartsHere
<1>7. /\ IsMachine(m) /\ m.outcome = "running" /\ w = vm.locals /\ m.top = vm.top
      /\ m.out = vm.out /\ m.calls = CallsFrom(opt.origin, vm.calls)
      /\ m.tries = TriesFrom(opt.origin, vm.tries) /\ m.heap = vm.heap
      /\ ops \in Seq(V) /\ Len(ops) = h /\ ops = Contents(cache)
  BY <1>3, <1>6 DEF Here, Before
<1>8. Byte(Reference.code, q) = Op.RET
  <2>1. StandsFor(chunk, opt, vm.ip) /\ Reference.code = chunk.code /\ q = opt.origin[vm.ip]
    BY <1>6 DEF Here, Before
  <2> QED
    BY <1>1, <1>2, <2>1 DEF StandsFor
<1>9. PICK v : v = Peek(ops)
  OBVIOUS
<1>10. PICK s : s = Return(At3(m, q, w, ops), v)
  OBVIOUS
<1>11. s = Canonical(Reference, At3(m, q, w, ops))
  <2>1. PICK t : t = At3(m, q, w, ops)
    OBVIOUS
  <2>2. t.ip = q /\ t.ops = ops
    BY <1>7, <2>1, MachineFields, MovedState
  <2>3. ExecAt(Reference, t, q, Op.RET) = Return(t, Peek(t.ops))
    BY OpNumbers DEF ExecAt, Binaries
  <2> QED
    BY <1>8, <1>9, <1>10, <2>1, <2>2, <2>3 DEF Canonical
<1>12. PICK n \in Nat : n = Len(vm.calls)
  BY LenProperties DEF VMInv, MachineOK, FrameRecords
<1>13. vm.calls \in FrameRecords /\ DOMAIN vm = VMFields
  BY DEF VMInv, MachineOK
<1>14. Len(m.calls) = n /\ (m.calls = <<>> <=> vm.calls = <<>>)
  <2>1. PICK c : c = m.calls
    OBVIOUS
  <2>2. PICK org, calls : org = opt.origin /\ calls = vm.calls
    OBVIOUS
  <2>3. calls \in FrameRecords /\ c = CallsFrom(org, calls) /\ n = Len(calls)
    BY <1>7, <1>12, <1>13, <2>1, <2>2
  <2>4. Len(c) = n /\ (c = <<>> <=> calls = <<>>)
    BY <2>3, MappedCalls
  <2> QED
    BY <2>1, <2>2, <2>4
<1>15. CASE vm.calls = <<>>
  <2>1. vm' = [vm EXCEPT !.outcome = "halted"] /\ cache' = FLUSH_TOS(cache)
    BY <1>15 DEF Ret
  <2>2. /\ vm'.locals = vm.locals /\ vm'.top = vm.top /\ vm'.calls = vm.calls
        /\ vm'.tries = vm.tries /\ vm'.heap = vm.heap /\ vm'.out = vm.out
        /\ vm'.outcome = "halted"
    BY <1>13, <2>1 DEF VMFields
  <2>3. Contents(cache') = ops
    BY <1>4, <1>7, <2>1, ContentsFlush
  <2>4. m.calls = <<>>
    BY <1>14, <1>15
  <2>5. /\ IsMachine(s) /\ s.ip = q /\ s.locals = w /\ s.ops = ops /\ s.top = m.top
        /\ s.calls = m.calls /\ s.tries = m.tries /\ s.heap = m.heap /\ s.out = m.out
        /\ s.outcome = "halted"
    BY <1>7, <1>10, <2>4, LeftIs
  <2>6. /\ s.outcome # "running" /\ vm'.outcome = s.outcome
        /\ s.locals = vm'.locals /\ s.ops = Contents(cache') /\ s.top = vm'.top
        /\ s.calls = CallsFrom(opt.origin, vm'.calls)
        /\ s.tries = TriesFrom(opt.origin, vm'.tries) /\ s.heap = vm'.heap /\ s.out = vm'.out
    BY <1>7, <2>2, <2>3, <2>5
  <2> QED
    BY ONLY <1>5, <1>6, <1>11, <2>5, <2>6, StepsOut
<1>16. CASE vm.calls # <<>>
  <2>1. PICK f, c : f = vm.calls[n] /\ c = SubSeq(vm.calls, 1, n - 1)
    OBVIOUS
  <2>2. /\ DOMAIN vm' = VMFields /\ vm'.calls = c /\ vm'.top = f.base /\ vm'.ip = f.ret
        /\ vm'.tries = vm.tries /\ vm'.heap = vm.heap /\ vm'.locals = vm.locals
        /\ vm'.out = vm.out /\ vm'.outcome = "running" /\ cache' = RETURN_TOS(cache, f.depth)
    BY <1>2, <1>12, <1>13, <1>16, <2>1 DEF Ret, VMFields
  <2>3. n \in 1 .. n /\ n - 1 \in 0 .. n
    <3>1. n # 0
      BY <1>12, <1>13, <1>16, EmptySeq DEF FrameRecords
    <3> QED
      BY <3>1
  <2>4. PICK d \in Nat : d = f.depth
    <3>1. n \in DOMAIN vm.calls
      BY <1>12, <1>13, <2>3 DEF FrameRecords
    <3>2. f \in [ret : Nat, base : Nat, depth : Nat, size : Nat]
      BY <1>12, <1>13, <2>1, <2>3, ElementOfSeq DEF FrameRecords
    <3> QED
      BY <3>2
  <2>5. d \in 0 .. Len(cache[1])
    <3>1. PICK a \in Nat : Len(cache[1]) = a
      BY Untouched, CacheTypes
    <3>2. Bottom(vm.calls, n) <= Len(cache[1])
      BY <1>2, <1>12 DEF VMInv, Running
    <3>3. Bottom(vm.calls, n) = d
      BY <2>1, <2>3, <2>4 DEF Bottom
    <3> QED
      BY <3>1, <3>2, <3>3
  <2>6. Contents(cache') = Append(SubSeq(ops, 1, d), v)
    BY <1>3, <1>4, <1>7, <1>9, <2>2, <2>4, <2>5, ContentsReturn
  <2>7. PICK g : g = m.calls[n]
    OBVIOUS
  <2>8. g.ret = opt.origin[f.ret] /\ g.base = f.base /\ g.depth = d
    <3>1. PICK org, calls, e : org = opt.origin /\ calls = vm.calls /\ e = m.calls
      OBVIOUS
    <3>2. calls \in FrameRecords /\ e = CallsFrom(org, calls) /\ n = Len(calls)
      BY <1>7, <1>12, <1>13, <3>1
    <3>3. /\ e[n].ret = org[calls[n].ret] /\ e[n].base = calls[n].base
          /\ e[n].depth = calls[n].depth
      BY <2>3, <3>2, OneCallsMapped
    <3> QED
      BY <2>1, <2>4, <2>7, <3>1, <3>3
  <2>9. SubSeq(m.calls, 1, n - 1) = CallsFrom(opt.origin, c)
    <3>1. PICK org, calls, k : org = opt.origin /\ calls = vm.calls /\ k = n - 1
      OBVIOUS
    <3>2. calls \in FrameRecords /\ k \in 0 .. Len(calls)
      BY <1>12, <1>13, <2>3, <3>1
    <3>3. CallsFrom(org, SubSeq(calls, 1, k)) = SubSeq(CallsFrom(org, calls), 1, k)
      BY <3>2, MappedCut
    <3> QED
      BY <1>7, <2>1, <3>1, <3>3
  <2>10. m.calls # <<>>
    BY <1>14, <1>16
  <2>11. /\ IsMachine(s) /\ s.ip = g.ret /\ s.locals = w
         /\ s.ops = Append(SubSeq(ops, 1, d), v) /\ s.top = g.base
         /\ s.calls = SubSeq(m.calls, 1, n - 1) /\ s.tries = m.tries
         /\ s.heap = m.heap /\ s.out = m.out /\ s.outcome = m.outcome
    <3>1. IsMachine(m) /\ m.calls # <<>> /\ n = Len(m.calls) /\ g = m.calls[n]
          /\ d = g.depth /\ s = Return(At3(m, q, w, ops), v)
      BY <1>7, <1>10, <1>14, <2>7, <2>8, <2>10
    <3>2. IsMachine(s) /\ s.ip = g.ret /\ s.locals = w
      BY <3>1, ReturnedIs
    <3>3. s.ops = Append(SubSeq(ops, 1, d), v) /\ s.top = g.base
      BY <3>1, ReturnedIs
    <3>4. s.calls = SubSeq(m.calls, 1, n - 1) /\ s.tries = m.tries
      BY <3>1, ReturnedIs
    <3>5. s.heap = m.heap /\ s.out = m.out /\ s.outcome = m.outcome
      BY <3>1, ReturnedIs
    <3> QED
      BY <3>2, <3>3, <3>4, <3>5
  <2>12. /\ s.outcome = "running" /\ vm'.outcome = "running" /\ s.ip = opt.origin[vm'.ip]
         /\ s.locals = vm'.locals /\ s.ops = Contents(cache') /\ s.top = vm'.top
         /\ s.calls = CallsFrom(opt.origin, vm'.calls)
         /\ s.tries = TriesFrom(opt.origin, vm'.tries) /\ s.heap = vm'.heap /\ s.out = vm'.out
    BY <1>7, <2>2, <2>6, <2>8, <2>9, <2>11
  <2> QED
    BY ONLY <1>5, <1>6, <1>11, <2>11, <2>12, StepsTo
<1> QED
  BY <1>15, <1>16

-----------------------------------------------------------------------------
(* The instructions the loop hands to the handlers of the base loop.         *)

(* The machine a handler is given, and the one it stands for.                *)
Facing(L, V, m, q, w, ops, s, t) ==
    /\ Here(L, V, m, q, w, ops) /\ t = At3(m, q, w, ops) /\ IsMachine(t)
    /\ DOMAIN s = SyncedFields /\ DOMAIN t = SyncedFields
    /\ s.ip = vm.ip /\ s.ops = ops /\ s.locals = vm.locals /\ s.top = vm.top
    /\ s.calls = vm.calls /\ s.tries = vm.tries /\ s.heap = vm.heap /\ s.out = vm.out
    /\ s.outcome = "running"
    /\ t.ip = q /\ t.ops = ops /\ t.locals = vm.locals /\ t.top = vm.top
    /\ t.calls = CallsFrom(opt.origin, vm.calls) /\ t.tries = TriesFrom(opt.origin, vm.tries)
    /\ t.heap = vm.heap /\ t.out = vm.out /\ t.outcome = "running"
    /\ ops \in Seq(V) /\ Len(ops) = Height(cache) /\ StandsFor(chunk, opt, vm.ip)
    /\ q = opt.origin[vm.ip] /\ Reference.code = chunk.code
    /\ Reference.strings = opt.strings

(* The handler finds the same operands and frames in both codes.             *)
LEMMA FacesHandler ==
    ASSUME NEW L, NEW V, VMInv(L, V), Matching(L), NEW o \in Delegated, HandledAt(o)
    PROVE  \E m, q, w, ops, s, t :
              /\ Facing(L, V, m, q, w, ops, s, t) /\ Byte(opt.code, vm.ip) = o /\ opt' = opt
              /\ Resume(ExecAt([opt EXCEPT !.code = code], s, vm.ip, o))
<1>1. vm.outcome = "running" /\ Byte(opt.code, vm.ip) = o /\ opt' = opt
  BY HandlerGiven DEF HandledAt
<1>2. PICK m, q, w, ops : Here(L, V, m, q, w, ops)
  BY <1>1, StartsHere
<1>3. PICK s, t : s = Synced /\ t = At3(m, q, w, ops)
  OBVIOUS
<1>4. Reference.strings = opt.strings
  BY ReferenceIs
<1>5. /\ DOMAIN s = SyncedFields /\ s.ops = ops
      /\ s.ip = vm.ip /\ s.locals = vm.locals /\ s.top = vm.top
      /\ s.calls = vm.calls /\ s.tries = vm.tries /\ s.heap = vm.heap
      /\ s.out = vm.out /\ s.outcome = vm.outcome
  <2>1. Synced.ops = Contents(cache)
    BY DEF Synced
  <2>2. ops = Contents(cache)
    BY <1>2 DEF Here
  <2> QED
    BY <1>3, <2>1, <2>2, SyncedIs
<1>6. /\ IsMachine(m) /\ DOMAIN m = SyncedFields /\ m.outcome = "running" /\ w = vm.locals
      /\ m.top = vm.top /\ m.out = vm.out /\ m.calls = CallsFrom(opt.origin, vm.calls)
      /\ m.tries = TriesFrom(opt.origin, vm.tries) /\ m.heap = vm.heap
      /\ ops \in Seq(V) /\ Len(ops) = Height(cache) /\ StandsFor(chunk, opt, vm.ip)
      /\ q = opt.origin[vm.ip] /\ Reference.code = chunk.code
  BY <1>2 DEF Here, Before
<1>7. /\ DOMAIN t = SyncedFields /\ t.ip = q /\ t.locals = w /\ t.ops = ops /\ t.top = m.top
      /\ t.calls = m.calls /\ t.tries = m.tries /\ t.heap = m.heap /\ t.out = m.out
      /\ t.outcome = m.outcome
  BY ONLY <1>3, <1>6, MovedState
<1>8. IsMachine(t)
  BY <1>3, <1>6, MovedIs
<1>9. Facing(L, V, m, q, w, ops, s, t)
  BY <1>1, <1>2, <1>3, <1>4, <1>5, <1>6, <1>7, <1>8 DEF Facing
<1>10. Resume(ExecAt([opt EXCEPT !.code = code], s, vm.ip, o))
  BY <1>3 DEF HandledAt
<1> QED
  BY <1>1, <1>9, <1>10

(* The handler leads to the machine r, the canonical instruction to n.       *)
LEMMA HandledAs ==
    ASSUME NEW L, NEW V, NEW m, NEW q, NEW w, NEW ops, NEW s, NEW t,
           Facing(L, V, m, q, w, ops, s, t), opt' = opt,
           NEW r, DOMAIN r = SyncedFields, Resume(r), NEW W, r.ops \in Seq(W),
           NEW n, n = Canonical(Reference, t), IsMachine(n), n.outcome = r.outcome,
           n.outcome = "running" => n.ip = opt.origin[r.ip],
           n.ops = r.ops, n.locals = r.locals, n.top = r.top,
           n.calls = CallsFrom(opt.origin, r.calls), n.tries = TriesFrom(opt.origin, r.tries),
           n.heap = r.heap, n.out = r.out
    PROVE  AsCanonical
<1>1. /\ cache' = <<r.ops, <<>>>> /\ vm'.ip = r.ip /\ vm'.locals = r.locals /\ vm'.top = r.top
      /\ vm'.calls = r.calls /\ vm'.tries = r.tries /\ vm'.heap = r.heap
      /\ vm'.out = r.out /\ vm'.outcome = r.outcome
  BY Resumed
<1>2. Contents(cache') = r.ops
  BY <1>1, ContentsInMemory
<1>3. n = Canonical(Reference, At3(m, q, w, ops)) /\ Here(L, V, m, q, w, ops)
  BY DEF Facing
<1>4. /\ n.locals = vm'.locals /\ n.ops = Contents(cache') /\ n.top = vm'.top
      /\ n.calls = CallsFrom(opt.origin, vm'.calls)
      /\ n.tries = TriesFrom(opt.origin, vm'.tries) /\ n.heap = vm'.heap /\ n.out = vm'.out
      /\ vm'.outcome = n.outcome /\ IsMachine(n) /\ opt' = opt
  BY <1>1, <1>2
<1>5. CASE n.outcome = "running"
  <2>1. vm'.outcome = "running" /\ n.ip = opt.origin[vm'.ip]
    BY <1>1, <1>5
  <2> QED
    BY ONLY <1>3, <1>4, <1>5, <2>1, StepsTo
<1>6. CASE n.outcome # "running"
  BY ONLY <1>3, <1>4, <1>6, StepsOut
<1> QED
  BY <1>5, <1>6

LEMMA PushStringCanonical ==
    ASSUME NEW L, NEW V, VMInv(L, V), Matching(L), HandledAt(Op.PUSH_STRING)
    PROVE  AsCanonical
<1>1. PICK m, q, w, ops, s, t :
          /\ Facing(L, V, m, q, w, ops, s, t) /\ Byte(opt.code, vm.ip) = Op.PUSH_STRING
          /\ opt' = opt
          /\ Resume(ExecAt([opt EXCEPT !.code = code], s, vm.ip, Op.PUSH_STRING))
  BY FacesHandler DEF Delegated
<1>2. PICK c, p : c = [opt EXCEPT !.code = code] /\ p = vm.ip
  OBVIOUS
<1>3. PICK r, n : /\ r = ExecAt(c, s, p, Op.PUSH_STRING)
                  /\ n = ExecAt(Reference, t, q, Op.PUSH_STRING)
  OBVIOUS
<1>4. /\ Byte(Reference.code, q) = Op.PUSH_STRING /\ opt.origin[p + 3] = q + 3
      /\ UInt16(Reference.code, q + 1) = UInt16(opt.code, p + 1)
  BY <1>1, <1>2 DEF Facing, StandsFor
<1>5. c.strings = opt.strings /\ UInt16(c.code, p + 1) = UInt16(opt.code, p + 1)
  <2>1. Straight(Op.PUSH_STRING, 0, 1, 3)
    BY StraightTable
  <2>2. Width(Op.PUSH_STRING) = 3
    BY <2>1 DEF Straight
  <2>3. Op.PUSH_STRING \in Delegated
    BY DEF Delegated
  <2> QED
    BY <1>2, <2>2, <2>3, HandlerGiven DEF HandledAt
<1>6. PICK v : v = Literal(opt.strings[UInt16(opt.code, p + 1)])
  OBVIOUS
<1>7. PICK ops1, W : ops1 = Append(ops, v) /\ W = V \cup {v}
  OBVIOUS
<1>8. ops1 \in Seq(W)
  <2>1. v \in W /\ ops \in Seq(W)
    BY <1>1, <1>7, LargerSeq DEF Facing
  <2> QED
    BY <1>7, <2>1, AppendProperties
<1>9. r = Advance(s, 3, ops1)
  BY <1>1, <1>3, <1>5, <1>6, <1>7, HandlerTable DEF Facing
<1>10. n = Advance(t, 3, ops1)
  BY <1>1, <1>3, <1>4, <1>6, <1>7, HandlerTable DEF Facing
<1>11. /\ DOMAIN r = SyncedFields /\ r.ip = p + 3 /\ r.ops = ops1 /\ r.locals = vm.locals
       /\ r.top = vm.top /\ r.calls = vm.calls /\ r.tries = vm.tries /\ r.heap = vm.heap
       /\ r.out = vm.out /\ r.outcome = "running"
  BY <1>1, <1>2, <1>9 DEF Facing, Advance, SyncedFields, VMFields
<1>12. IsMachine(n)
  BY <1>1, <1>10 DEF Facing, Advance, IsMachine, SyncedFields, VMFields
<1>13. /\ n.ip = q + 3 /\ n.ops = ops1 /\ n.locals = vm.locals
       /\ n.top = vm.top /\ n.calls = CallsFrom(opt.origin, vm.calls)
       /\ n.tries = TriesFrom(opt.origin, vm.tries) /\ n.heap = vm.heap
       /\ n.out = vm.out /\ n.outcome = "running"
  BY <1>1, <1>10 DEF Facing, Advance, SyncedFields, VMFields
<1>14. n = Canonical(Reference, t)
  BY <1>1, <1>3, <1>4 DEF Facing, Canonical
<1>15. Resume(r)
  BY <1>1, <1>2, <1>3
<1> QED
  BY <1>1, <1>4, <1>8, <1>11, <1>12, <1>13, <1>14, <1>15, HandledAs

LEMMA PrintlnCanonical ==
    ASSUME NEW L, NEW V, VMInv(L, V), Matching(L), HandledAt(Op.PRINTLN)
    PROVE  AsCanonical
<1>1. PICK m, q, w, ops, s, t :
          /\ Facing(L, V, m, q, w, ops, s, t) /\ Byte(opt.code, vm.ip) = Op.PRINTLN
          /\ opt' = opt
          /\ Resume(ExecAt([opt EXCEPT !.code = code], s, vm.ip, Op.PRINTLN))
  BY FacesHandler DEF Delegated
<1>2. PICK c, p : c = [opt EXCEPT !.code = code] /\ p = vm.ip
  OBVIOUS
<1>3. PICK r, n : /\ r = ExecAt(c, s, p, Op.PRINTLN)
                  /\ n = ExecAt(Reference, t, q, Op.PRINTLN)
  OBVIOUS
<1>4. Byte(Reference.code, q) = Op.PRINTLN /\ opt.origin[p + 1] = q + 1
  BY <1>1, <1>2 DEF Facing, StandsFor
<1>5. PICK ops1, out : ops1 = Append(Drop(ops, 1), Nil) /\ out = Append(vm.out, Peek(ops))
  OBVIOUS
<1>6. ops1 \in Seq(V)
  <2>1. PICK h \in Nat : Height(cache) = h
    BY Untouched
  <2>2. vm.outcome = "running"
    BY DEF HandledAt, At
  <2>3. Straight(Op.PRINTLN, 1, 1, 1)
    BY StraightTable
  <2>4. h >= 1
    BY <1>1, <2>1, <2>2, <2>3, EnoughOnStack DEF Straight
  <2>5. 1 \in 0 .. h /\ ops \in Seq(V) /\ Len(ops) = h
    BY <1>1, <2>1, <2>4 DEF Facing
  <2>6. Drop(ops, 1) \in Seq(V)
    BY <2>5, OneDropped
  <2> QED
    BY <1>5, <2>6, AppendProperties, Untouched
<1>9. r = [Advance(s, 1, ops1) EXCEPT !.out = out]
  <2>1. r = [Advance(s, 1, Append(Drop(s.ops, 1), Nil)) EXCEPT !.out = Append(@, Peek(s.ops))]
    BY <1>3, HandlerTable
  <2>2. Advance(s, 1, ops1).out = vm.out
    BY <1>1 DEF Facing, Advance, SyncedFields, VMFields
  <2>3. s.ops = ops
    BY <1>1 DEF Facing
  <2> QED
    BY <1>5, <2>1, <2>2, <2>3
<1>10. n = [Advance(t, 1, ops1) EXCEPT !.out = out]
  <2>1. n = [Advance(t, 1, Append(Drop(t.ops, 1), Nil)) EXCEPT !.out = Append(@, Peek(t.ops))]
    BY <1>3, HandlerTable
  <2>2. Advance(t, 1, ops1).out = vm.out
    BY <1>1 DEF Facing, Advance, SyncedFields, VMFields
  <2>3. t.ops = ops
    BY <1>1 DEF Facing
  <2> QED
    BY <1>5, <2>1, <2>2, <2>3
<1>11. /\ DOMAIN r = SyncedFields /\ r.ip = p + 1 /\ r.ops = ops1 /\ r.locals = vm.locals
       /\ r.top = vm.top /\ r.calls = vm.calls /\ r.tries = vm.tries /\ r.heap = vm.heap
       /\ r.out = out /\ r.outcome = "running"
  BY <1>1, <1>2, <1>9 DEF Facing, Advance, SyncedFields, VMFields
<1>12. IsMachine(n)
  BY <1>1, <1>10 DEF Facing, Advance, IsMachine, SyncedFields, VMFields
<1>13. /\ n.ip = q + 1 /\ n.ops = ops1 /\ n.locals = vm.locals
       /\ n.top = vm.top /\ n.calls = CallsFrom(opt.origin, vm.calls)
       /\ n.tries = TriesFrom(opt.origin, vm.tries) /\ n.heap = vm.heap
       /\ n.out = out /\ n.outcome = "running"
  BY <1>1, <1>10 DEF Facing, Advance, SyncedFields, VMFields
<1>14. n = Canonical(Reference, t)
  BY <1>1, <1>3, <1>4 DEF Facing, Canonical
<1>15. Resume(r)
  BY <1>1, <1>2, <1>3
<1> QED
  BY <1>1, <1>4, <1>6, <1>11, <1>12, <1>13, <1>14, <1>15, HandledAs

LEMMA HaltCanonical ==
    ASSUME NEW L, NEW V, VMInv(L, V), Matching(L), HandledAt(Op.HALT)
    PROVE  AsCanonical
<1>1. PICK m, q, w, ops, s, t :
          /\ Facing(L, V, m, q, w, ops, s, t) /\ Byte(opt.code, vm.ip) = Op.HALT
          /\ opt' = opt
          /\ Resume(ExecAt([opt EXCEPT !.code = code], s, vm.ip, Op.HALT))
  BY FacesHandler DEF Delegated
<1>2. PICK c, p : c = [opt EXCEPT !.code = code] /\ p = vm.ip
  OBVIOUS
<1>3. PICK r, n : r = ExecAt(c, s, p, Op.HALT) /\ n = ExecAt(Reference, t, q, Op.HALT)
  OBVIOUS
<1>4. Byte(Reference.code, q) = Op.HALT
  BY <1>1, <1>2 DEF Facing, StandsFor
<1>9. r = [s EXCEPT !.outcome = "halted"] /\ n = [t EXCEPT !.outcome = "halted"]
  BY <1>3, HandlerTable
<1>11. /\ DOMAIN r = SyncedFields /\ r.ops = ops /\ r.locals = vm.locals
       /\ r.top = vm.top /\ r.calls = vm.calls /\ r.tries = vm.tries /\ r.heap = vm.heap
       /\ r.out = vm.out /\ r.outcome = "halted" /\ ops \in Seq(V)
  BY <1>1, <1>9 DEF Facing, SyncedFields, VMFields
<1>12. IsMachine(n)
  BY <1>1, <1>9 DEF Facing, IsMachine, SyncedFields, VMFields
<1>13. /\ n.ops = ops /\ n.locals = vm.locals
       /\ n.top = vm.top /\ n.calls = CallsFrom(opt.origin, vm.calls)
       /\ n.tries = TriesFrom(opt.origin, vm.tries) /\ n.heap = vm.heap
       /\ n.out = vm.out /\ n.outcome = "halted"
  BY <1>1, <1>9 DEF Facing, SyncedFields, VMFields
<1>14. n = Canonical(Reference, t)
  BY <1>1, <1>3, <1>4 DEF Facing, Canonical
<1>15. Resume(r)
  BY <1>1, <1>2, <1>3
<1> QED
  BY <1>1, <1>11, <1>12, <1>13, <1>14, <1>15, HandledAs

LEMMA NewInstanceCanonical ==
    ASSUME NEW L, NEW V, VMInv(L, V), Matching(L), HandledAt(Op.NEW_INSTANCE)
    PROVE  AsCanonical
<1>1. PICK m, q, w, ops, s, t :
          /\ Facing(L, V, m, q, w, ops, s, t) /\ Byte(opt.code, vm.ip) = Op.NEW_INSTANCE
          /\ opt' = opt
          /\ Resume(ExecAt([opt EXCEPT !.code = code], s, vm.ip, Op.NEW_INSTANCE))
  BY FacesHandler DEF Delegated
<1>2. PICK c, p : c = [opt EXCEPT !.code = code] /\ p = vm.ip
  OBVIOUS
<1>3. PICK r, n : /\ r = ExecAt(c, s, p, Op.NEW_INSTANCE)
                  /\ n = ExecAt(Reference, t, q, Op.NEW_INSTANCE)
  OBVIOUS
<1>4. /\ Byte(Reference.code, q) = Op.NEW_INSTANCE /\ opt.origin[p + 4] = q + 4
      /\ UInt16(Reference.code, q + 1) = UInt16(opt.code, p + 1)
  BY <1>1, <1>2 DEF Facing, StandsFor
<1>5. c.strings = opt.strings /\ UInt16(c.code, p + 1) = UInt16(opt.code, p + 1)
  BY <1>2, HandlerWide, HandlerGiven DEF HandlerWidths, Delegated, HandledAt
<1>6. PICK v, obj : /\ v = <<"obj", Len(vm.heap) + 1>>
                    /\ obj = [cls |-> opt.strings[UInt16(opt.code, p + 1)],
                              names |-> <<>>, vals |-> <<>>]
  OBVIOUS
<1>7. PICK ops1, W, heap : ops1 = Append(ops, v) /\ W = V \cup {v}
                           /\ heap = Append(vm.heap, obj)
  OBVIOUS
<1>8. ops1 \in Seq(W)
  <2>1. v \in W /\ ops \in Seq(W)
    BY <1>1, <1>7, LargerSeq DEF Facing
  <2> QED
    BY <1>7, <2>1, AppendProperties
<1>9. \A ch, k, i : ExecAt(ch, k, i, Op.NEW_INSTANCE) =
          [Advance(k, 4, Append(k.ops, <<"obj", Len(k.heap) + 1>>))
              EXCEPT !.heap = Append(@, [cls |-> ch.strings[UInt16(ch.code, i + 1)],
                                         names |-> <<>>, vals |-> <<>>])]
  BY OpNumbers DEF ExecAt, Binaries
<1>10. r = [Advance(s, 4, ops1) EXCEPT !.heap = heap]
  <2>1. r = [Advance(s, 4, Append(s.ops, <<"obj", Len(s.heap) + 1>>))
                EXCEPT !.heap = Append(@, [cls |-> c.strings[UInt16(c.code, p + 1)],
                                           names |-> <<>>, vals |-> <<>>])]
    BY <1>3, <1>9
  <2>2. Advance(s, 4, ops1).heap = vm.heap
    BY <1>1 DEF Facing, Advance, SyncedFields, VMFields
  <2>3. s.ops = ops /\ s.heap = vm.heap
    BY <1>1 DEF Facing
  <2> QED
    BY <1>5, <1>6, <1>7, <2>1, <2>2, <2>3
<1>11. n = [Advance(t, 4, ops1) EXCEPT !.heap = heap]
  <2>1. n = [Advance(t, 4, Append(t.ops, <<"obj", Len(t.heap) + 1>>))
                EXCEPT !.heap = Append(@, [cls |-> Reference.strings[UInt16(Reference.code, q + 1)],
                                           names |-> <<>>, vals |-> <<>>])]
    BY <1>3, <1>9
  <2>2. Advance(t, 4, ops1).heap = vm.heap
    BY <1>1 DEF Facing, Advance, SyncedFields, VMFields
  <2>3. t.ops = ops /\ t.heap = vm.heap /\ Reference.strings = opt.strings
    BY <1>1 DEF Facing
  <2> QED
    BY <1>4, <1>6, <1>7, <2>1, <2>2, <2>3
<1>12. /\ DOMAIN r = SyncedFields /\ r.ip = p + 4 /\ r.ops = ops1 /\ r.locals = vm.locals
       /\ r.top = vm.top /\ r.calls = vm.calls /\ r.tries = vm.tries /\ r.heap = heap
       /\ r.out = vm.out /\ r.outcome = "running"
  BY <1>1, <1>2, <1>10 DEF Facing, Advance, SyncedFields, VMFields
<1>13. IsMachine(n)
  BY <1>1, <1>11 DEF Facing, Advance, IsMachine, SyncedFields, VMFields
<1>14. /\ n.ip = q + 4 /\ n.ops = ops1 /\ n.locals = vm.locals
       /\ n.top = vm.top /\ n.calls = CallsFrom(opt.origin, vm.calls)
       /\ n.tries = TriesFrom(opt.origin, vm.tries) /\ n.heap = heap
       /\ n.out = vm.out /\ n.outcome = "running"
  BY <1>1, <1>11 DEF Facing, Advance, SyncedFields, VMFields
<1>15. n = Canonical(Reference, t)
  BY <1>1, <1>3, <1>4 DEF Facing, Canonical
<1>16. Resume(r)
  BY <1>1, <1>2, <1>3
<1> QED
  BY <1>1, <1>4, <1>8, <1>12, <1>13, <1>14, <1>15, <1>16, HandledAs

LEMMA TryCanonical ==
    ASSUME NEW L, NEW V, VMInv(L, V), Matching(L), HandledAt(Op.TRY)
    PROVE  AsCanonical
<1>1. PICK m, q, w, ops, s, t :
          /\ Facing(L, V, m, q, w, ops, s, t) /\ Byte(opt.code, vm.ip) = Op.TRY
          /\ opt' = opt
          /\ Resume(ExecAt([opt EXCEPT !.code = code], s, vm.ip, Op.TRY))
  BY FacesHandler DEF Delegated
<1>2. PICK c, p : c = [opt EXCEPT !.code = code] /\ p = vm.ip
  OBVIOUS
<1>3. PICK r, n : r = ExecAt(c, s, p, Op.TRY) /\ n = ExecAt(Reference, t, q, Op.TRY)
  OBVIOUS
<1>4. PICK catch, to : /\ catch = p + 3 + Int16(opt.code, p + 1)
                       /\ to = q + 3 + Int16(Reference.code, q + 1)
  OBVIOUS
<1>5. /\ Byte(Reference.code, q) = Op.TRY /\ opt.origin[p + 3] = q + 3
      /\ opt.origin[catch] = to
  <2>1. /\ StandsFor(chunk, opt, p) /\ Byte(opt.code, p) = Op.TRY /\ q = opt.origin[p]
        /\ Reference.code = chunk.code /\ p \in Nat /\ q \in Nat
    BY <1>1, <1>2 DEF Facing, Here
  <2>2. opt.origin[p + 1 + 2 + Int16(opt.code, p + 1)] = q + 1 + 2 + Int16(chunk.code, q + 1)
        /\ Byte(chunk.code, q) = Op.TRY /\ opt.origin[p + 3] = q + 3
    BY <2>1 DEF StandsFor
  <2>3. p + 1 + 2 = p + 3 /\ q + 1 + 2 = q + 3
    BY <2>1
  <2> QED
    BY <1>4, <2>1, <2>2, <2>3
<1>6. Int16(c.code, p + 1) = Int16(opt.code, p + 1) /\ Int16(opt.code, p + 1) \in Int
  BY <1>2, HandlerWide, HandlerGiven DEF HandlerWidths, Delegated, HandledAt
<1>7. PICK h \in Nat : h = Len(ops)
  BY <1>1, LenProperties DEF Facing
<1>8. PICK k \in Nat : k = Len(vm.calls)
  BY LenProperties DEF VMInv, MachineOK, FrameRecords
<1>9. PICK f, g : /\ f = [catch |-> catch, depth |-> h, top |-> vm.top, calls |-> k]
                  /\ g = [catch |-> to, depth |-> h, top |-> vm.top, calls |-> k]
  OBVIOUS
<1>10. r = [s EXCEPT !.tries = Append(vm.tries, f), !.ip = p + 3]
  <2>1. r = EnterTry(s, 3, catch)
    <3>1. r = EnterTry(s, 3, p + 3 + Int16(c.code, p + 1))
      BY <1>3, HandlerTable
    <3> QED
      BY <1>4, <1>6, <3>1
  <2>2. /\ DOMAIN s = SyncedFields /\ s.ip = p /\ s.ops = ops /\ s.top = vm.top
        /\ s.calls = vm.calls /\ s.tries = vm.tries
    BY <1>1, <1>2 DEF Facing
  <2> QED
    BY <1>7, <1>8, <1>9, <2>1, <2>2 DEF EnterTry, SyncedFields, VMFields
<1>11. Len(t.calls) = k
  <2>1. PICK org, calls, e : org = opt.origin /\ calls = vm.calls /\ e = t.calls
    OBVIOUS
  <2>2. calls \in FrameRecords /\ e = CallsFrom(org, calls) /\ k = Len(calls)
    BY <1>1, <1>8, <2>1 DEF Facing, VMInv, MachineOK
  <2>3. Len(e) = k
    BY <2>2, MappedCalls
  <2> QED
    BY <2>1, <2>3
<1>12. n = [t EXCEPT !.tries = Append(t.tries, g), !.ip = q + 3]
  <2>1. n = EnterTry(t, 3, to)
    BY <1>3, <1>4, HandlerTable
  <2>2. DOMAIN t = SyncedFields /\ t.ip = q /\ t.ops = ops /\ t.top = vm.top
    BY <1>1 DEF Facing
  <2> QED
    BY <1>7, <1>9, <1>11, <2>1, <2>2 DEF EnterTry, SyncedFields, VMFields
<1>13. catch \in Nat
  <2>1. vm.outcome = "running"
    BY DEF HandledAt, At
  <2>2. /\ p \in DOMAIN L /\ Labelled(L) /\ TryBlocks(opt, L, p, Op.TRY)
    BY <1>1, <1>2, <2>1, HandlerPlace, HandlerGiven DEF Delegated, HandledAt
  <2>3. catch \in DOMAIN L
    BY <1>4, <2>2 DEF TryBlocks, Follows
  <2> QED
    BY <2>2, <2>3, LabelTypes
<1>14. Append(t.tries, g) = TriesFrom(opt.origin, Append(vm.tries, f))
  <2>1. PICK org : org = opt.origin
    OBVIOUS
  <2>2. vm.tries \in TryRecords /\ vm.top \in Nat
    BY DEF VMInv, MachineOK
  <2>3. PICK tries \in TryRecords : tries = vm.tries
    BY <2>2
  <2>4. PICK top \in Nat : top = vm.top
    BY <2>2
  <2>5. /\ f = [catch |-> catch, depth |-> h, top |-> top, calls |-> k]
        /\ g = [catch |-> org[catch], depth |-> h, top |-> top, calls |-> k]
    BY <1>5, <1>9, <2>1, <2>4
  <2>6. TriesFrom(org, Append(tries, f)) = Append(TriesFrom(org, tries), g)
    BY <1>13, <2>5, MappedOpen
  <2>7. t.tries = TriesFrom(org, tries)
    BY <1>1, <2>1, <2>3 DEF Facing
  <2> QED
    BY <2>1, <2>3, <2>6, <2>7
<1>15. PICK tries1, tries2 : tries1 = Append(vm.tries, f) /\ tries2 = Append(t.tries, g)
  OBVIOUS
<1>16. /\ DOMAIN r = SyncedFields /\ r.ip = p + 3 /\ r.ops = ops /\ r.locals = vm.locals
       /\ r.top = vm.top /\ r.calls = vm.calls /\ r.tries = tries1 /\ r.heap = vm.heap
       /\ r.out = vm.out /\ r.outcome = "running" /\ ops \in Seq(V)
  BY <1>1, <1>10, <1>15 DEF Facing, SyncedFields, VMFields
<1>17. n = [t EXCEPT !.tries = tries2, !.ip = q + 3]
  BY <1>12, <1>15
<1>18. IsMachine(n)
  BY <1>1, <1>17 DEF Facing, IsMachine, SyncedFields, VMFields
<1>19. /\ n.ip = q + 3 /\ n.ops = ops /\ n.locals = vm.locals
       /\ n.top = vm.top /\ n.calls = CallsFrom(opt.origin, vm.calls)
       /\ n.tries = tries2 /\ n.heap = vm.heap
       /\ n.out = vm.out /\ n.outcome = "running"
  BY <1>1, <1>17 DEF Facing, SyncedFields, VMFields
<1>20. n = Canonical(Reference, t)
  BY <1>1, <1>3, <1>5 DEF Facing, Canonical
<1>21. Resume(r)
  BY <1>1, <1>2, <1>3
<1>22. n.tries = TriesFrom(opt.origin, r.tries)
  BY <1>14, <1>15, <1>16, <1>19
<1> QED
  BY <1>1, <1>5, <1>16, <1>18, <1>19, <1>20, <1>21, <1>22, HandledAs

(* The blocks of a machine, one taken off.                                   *)
LEMMA BlockTaken ==
    ASSUME NEW org, NEW tries \in TryRecords, tries # <<>>, NEW e, e = TriesFrom(org, tries)
    PROVE  /\ SubSeq(e, 1, Len(e) - 1) = TriesFrom(org, SubSeq(tries, 1, Len(tries) - 1))
           /\ e # <<>> /\ Len(e) = Len(tries)
           /\ e[Len(e)].catch = org[tries[Len(tries)].catch]
           /\ e[Len(e)].top = tries[Len(tries)].top
           /\ e[Len(e)].depth = tries[Len(tries)].depth
           /\ e[Len(e)].calls = tries[Len(tries)].calls
<1>1. PICK n \in Nat : n = Len(tries)
  BY LenProperties DEF TryRecords
<1>2. n # 0
  BY <1>1, EmptySeq DEF TryRecords
<1>3. PICK k \in 0 .. n : k = n - 1
  BY <1>2
<1>4. Len(e) = n /\ e # <<>>
  BY <1>1, MappedTries
<1>5. TriesFrom(org, SubSeq(tries, 1, k)) = SubSeq(e, 1, k)
  <2>1. k \in 0 .. Len(tries)
    BY <1>1
  <2> QED
    BY <2>1, MappedTriesCut
<1>6. n \in 1 .. n
  BY <1>2
<1>7. /\ e[n].catch = org[tries[n].catch] /\ e[n].top = tries[n].top
      /\ e[n].depth = tries[n].depth /\ e[n].calls = tries[n].calls
  BY <1>1, <1>6, OneTriesMapped
<1> QED
  BY <1>1, <1>3, <1>4, <1>5, <1>7

LEMMA PopTryCanonical ==
    ASSUME NEW L, NEW V, VMInv(L, V), Matching(L), HandledAt(Op.POP_TRY)
    PROVE  AsCanonical
<1>1. PICK m, q, w, ops, s, t :
          /\ Facing(L, V, m, q, w, ops, s, t) /\ Byte(opt.code, vm.ip) = Op.POP_TRY
          /\ opt' = opt
          /\ Resume(ExecAt([opt EXCEPT !.code = code], s, vm.ip, Op.POP_TRY))
  BY FacesHandler DEF Delegated
<1>2. PICK c, p : c = [opt EXCEPT !.code = code] /\ p = vm.ip
  OBVIOUS
<1>3. PICK r, n : r = ExecAt(c, s, p, Op.POP_TRY) /\ n = ExecAt(Reference, t, q, Op.POP_TRY)
  OBVIOUS
<1>4. Byte(Reference.code, q) = Op.POP_TRY /\ opt.origin[p + 1] = q + 1
  BY <1>1, <1>2 DEF Facing, StandsFor
<1>5. vm.outcome = "running" /\ p \in DOMAIN L /\ Labelled(L) /\ opt.topSize \in Nat
  BY <1>2, HandlerGiven DEF Delegated, HandledAt
<1>6. vm.tries # <<>>
  <2>1. PICK h \in Nat : Height(cache) = h
    BY Untouched
  <2>2. /\ vm.calls \in FrameRecords /\ vm.tries \in TryRecords
        /\ Control(L, opt.topSize, p, vm.calls, vm.tries, h)
        /\ TryBlocks(opt, L, p, Op.POP_TRY)
    BY <1>1, <1>2, <1>5, <2>1, HandlerPlace
  <2>3. PICK to : to = p + 1
    OBVIOUS
  <2>4. /\ L[p].tries # <<>>
        /\ to \in DOMAIN L /\ L[to].depth <= L[p].depth /\ L[to].room <= L[p].room
        /\ L[to].tries = SubSeq(L[p].tries, 1, Len(L[p].tries) - 1)
    BY <2>2, <2>3 DEF TryBlocks, Follows
  <2> QED
    BY <1>5, <2>1, <2>2, <2>4, LeavesBlock
<1>7. PICK less, less2 : /\ less = SubSeq(vm.tries, 1, Len(vm.tries) - 1)
                         /\ less2 = SubSeq(t.tries, 1, Len(t.tries) - 1)
  OBVIOUS
<1>8. less2 = TriesFrom(opt.origin, less)
  <2>1. PICK org, tries, e : org = opt.origin /\ tries = vm.tries /\ e = t.tries
    OBVIOUS
  <2>2. tries \in TryRecords /\ tries # <<>> /\ e = TriesFrom(org, tries)
    BY <1>1, <1>6, <2>1 DEF Facing, VMInv, MachineOK
  <2>3. SubSeq(e, 1, Len(e) - 1) = TriesFrom(org, SubSeq(tries, 1, Len(tries) - 1))
    BY <2>2, BlockTaken
  <2> QED
    BY <1>7, <2>1, <2>3
<1>9. r = [s EXCEPT !.tries = less, !.ip = p + 1]
  <2>1. r = PopTry(s, 1)
    BY <1>3, HandlerTable
  <2> QED
    BY <1>1, <1>2, <1>7, <2>1 DEF Facing, PopTry, SyncedFields, VMFields
<1>10. n = [t EXCEPT !.tries = less2, !.ip = q + 1]
  <2>1. n = PopTry(t, 1)
    BY <1>3, HandlerTable
  <2> QED
    BY <1>1, <1>2, <1>7, <2>1 DEF Facing, PopTry, SyncedFields, VMFields
<1>11. /\ DOMAIN r = SyncedFields /\ r.ip = p + 1 /\ r.ops = ops /\ r.locals = vm.locals
       /\ r.top = vm.top /\ r.calls = vm.calls /\ r.tries = less /\ r.heap = vm.heap
       /\ r.out = vm.out /\ r.outcome = "running" /\ ops \in Seq(V)
  BY <1>1, <1>9 DEF Facing, SyncedFields, VMFields
<1>12. IsMachine(n)
  BY <1>1, <1>10 DEF Facing, IsMachine, SyncedFields, VMFields
<1>13. /\ n.ip = q + 1 /\ n.ops = ops /\ n.locals = vm.locals
       /\ n.top = vm.top /\ n.calls = CallsFrom(opt.origin, vm.calls)
       /\ n.tries = less2 /\ n.heap = vm.heap
       /\ n.out = vm.out /\ n.outcome = "running"
  BY <1>1, <1>10 DEF Facing, SyncedFields, VMFields
<1>14. n = Canonical(Reference, t)
  BY <1>1, <1>3, <1>4 DEF Facing, Canonical
<1>15. Resume(r)
  BY <1>1, <1>2, <1>3
<1>16. n.tries = TriesFrom(opt.origin, r.tries)
  BY <1>8, <1>11, <1>13
<1> QED
  BY <1>1, <1>4, <1>11, <1>12, <1>13, <1>14, <1>15, <1>16, HandledAs

LEMMA ThrowCanonical ==
    ASSUME NEW L, NEW V, VMInv(L, V), Matching(L), FramesAbut, HandledAt(Op.THROW)
    PROVE  AsCanonical
<1>1. PICK m, q, w, ops, s, t :
          /\ Facing(L, V, m, q, w, ops, s, t) /\ Byte(opt.code, vm.ip) = Op.THROW
          /\ opt' = opt
          /\ Resume(ExecAt([opt EXCEPT !.code = code], s, vm.ip, Op.THROW))
  BY FacesHandler DEF Delegated
<1>2. PICK c, p : c = [opt EXCEPT !.code = code] /\ p = vm.ip
  OBVIOUS
<1>3. PICK r, n : r = ExecAt(c, s, p, Op.THROW) /\ n = ExecAt(Reference, t, q, Op.THROW)
  OBVIOUS
<1>4. Byte(Reference.code, q) = Op.THROW
  BY <1>1, <1>2 DEF Facing, StandsFor
<1>5. /\ vm.outcome = "running" /\ vm.ip \in DOMAIN L /\ Labelled(L) /\ Handled(L)
      /\ opt.topSize \in Nat
  BY HandlerGiven DEF Delegated, HandledAt
<1>6. PICK h \in Nat : Height(cache) = h
  BY Untouched
<1>7. /\ h - 1 \in Nat /\ Bottom(vm.calls, Len(vm.calls)) <= h - 1
      /\ \A i \in 1 .. Len(vm.tries) :
            vm.tries[i].calls = Len(vm.calls) => vm.tries[i].depth <= h - 1
  BY <1>1, <1>5, <1>6, ThrowerHolds
<1>8. PICK left \in Nat : left = h - 1
  BY <1>7
<1>9. PICK rest : rest = Drop(ops, 1)
  OBVIOUS
<1>10. rest \in Seq(V) /\ Len(rest) = left
  <2>1. 1 \in 0 .. h
    BY <1>8
  <2>2. ops \in Seq(V) /\ Len(ops) = h
    BY <1>1, <1>6 DEF Facing
  <2> QED
    BY <1>8, <1>9, <2>1, <2>2, OneDropped
<1>11. /\ vm.calls \in FrameRecords /\ vm.tries \in TryRecords /\ vm.top \in Nat
       /\ Control(L, opt.topSize, vm.ip, vm.calls, vm.tries, h)
  BY <1>5, <1>6, HandlerPlace
<1>12. r = Raise(s, rest) /\ n = Raise(t, rest)
  <2>1. r = Raise(s, Drop(s.ops, 1)) /\ n = Raise(t, Drop(t.ops, 1))
    BY <1>3, HandlerTable
  <2>2. s.ops = ops /\ t.ops = ops
    BY <1>1 DEF Facing
  <2> QED
    BY <1>9, <2>1, <2>2
<1>13. n = Canonical(Reference, t) /\ Resume(r)
  BY <1>1, <1>2, <1>3, <1>4 DEF Facing, Canonical
<1>14. CASE vm.tries = <<>>
  <2>1. s.tries = <<>> /\ t.tries = <<>>
    <3>1. PICK org, tries, e : org = opt.origin /\ tries = vm.tries /\ e = t.tries
      OBVIOUS
    <3>2. PICK z \in Nat : z = Len(tries)
      BY <1>11, <3>1, LenProperties DEF TryRecords
    <3>3. tries \in TryRecords /\ e = TriesFrom(org, tries)
      BY <1>1, <1>11, <3>1 DEF Facing
    <3>4. e = <<>>
      BY <1>14, <3>1, <3>2, <3>3, MappedTries
    <3> QED
      BY <1>1, <1>14, <3>1, <3>4 DEF Facing
  <2>2. r = [s EXCEPT !.ops = rest, !.outcome = "escaped"]
        /\ n = [t EXCEPT !.ops = rest, !.outcome = "escaped"]
    BY <1>12, <2>1 DEF Raise
  <2>3. /\ DOMAIN r = SyncedFields /\ r.ops = rest /\ r.locals = vm.locals
        /\ r.top = vm.top /\ r.calls = vm.calls /\ r.tries = vm.tries /\ r.heap = vm.heap
        /\ r.out = vm.out /\ r.outcome = "escaped"
    BY <1>1, <2>2 DEF Facing, SyncedFields, VMFields
  <2>4. IsMachine(n)
    BY <1>1, <2>2 DEF Facing, IsMachine, SyncedFields, VMFields
  <2>5. /\ n.ops = rest /\ n.locals = vm.locals
        /\ n.top = vm.top /\ n.calls = CallsFrom(opt.origin, vm.calls)
        /\ n.tries = TriesFrom(opt.origin, vm.tries) /\ n.heap = vm.heap
        /\ n.out = vm.out /\ n.outcome = "escaped"
    BY <1>1, <2>2 DEF Facing, SyncedFields, VMFields
  <2> QED
    BY <1>1, <1>10, <1>13, <2>3, <2>4, <2>5, HandledAs
<1>15. CASE vm.tries # <<>>
  <2>1. PICK b, calls, tries : /\ b = vm.tries[Len(vm.tries)]
                               /\ calls = SubSeq(vm.calls, 1, b.calls)
                               /\ tries = SubSeq(vm.tries, 1, Len(vm.tries) - 1)
    OBVIOUS
  <2>2. b.depth \in 0 .. left
    BY <1>5, <1>7, <1>8, <1>11, <1>15, <2>1, CaughtByBlock
  <2>3. PICK d \in 0 .. left : d = b.depth
    BY <2>2
  <2>4. PICK ops1, W : ops1 = Append(SubSeq(rest, 1, d), Caught) /\ W = V \cup {Caught}
    OBVIOUS
  <2>5. ops1 \in Seq(W)
    <3>1. SubSeq(rest, 1, d) \in Seq(V)
      <4>1. d \in 0 .. Len(rest)
        BY <1>10
      <4> QED
        BY <1>10, <4>1, Prefix
    <3>2. SubSeq(rest, 1, d) \in Seq(W) /\ Caught \in W
      BY <2>4, <3>1, LargerSeq
    <3> QED
      BY <2>4, <3>2, AppendProperties
  <2>6. PICK e, g, calls2, tries2 : /\ e = t.tries /\ g = e[Len(e)]
                                    /\ calls2 = SubSeq(t.calls, 1, b.calls)
                                    /\ tries2 = SubSeq(e, 1, Len(e) - 1)
    OBVIOUS
  <2>7. /\ tries2 = TriesFrom(opt.origin, tries) /\ e # <<>>
        /\ g.catch = opt.origin[b.catch] /\ g.top = b.top /\ g.depth = b.depth
        /\ g.calls = b.calls
    <3>1. PICK org, old : org = opt.origin /\ old = vm.tries
      OBVIOUS
    <3>2. old \in TryRecords /\ old # <<>> /\ e = TriesFrom(org, old)
      BY <1>1, <1>11, <1>15, <2>6, <3>1 DEF Facing
    <3>3. /\ SubSeq(e, 1, Len(e) - 1) = TriesFrom(org, SubSeq(old, 1, Len(old) - 1))
          /\ e # <<>> /\ Len(e) = Len(old)
          /\ e[Len(e)].catch = org[old[Len(old)].catch]
          /\ e[Len(e)].top = old[Len(old)].top
          /\ e[Len(e)].depth = old[Len(old)].depth
          /\ e[Len(e)].calls = old[Len(old)].calls
      BY <3>2, BlockTaken
    <3> QED
      BY <2>1, <2>6, <3>1, <3>3
  <2>8. calls2 = CallsFrom(opt.origin, calls)
    <3>1. PICK org, old, k : org = opt.origin /\ old = vm.calls /\ k = b.calls
      OBVIOUS
    <3>2. Len(vm.tries) \in 1 .. Len(vm.tries)
      <4>1. PICK z \in Nat : z = Len(vm.tries)
        BY <1>11, LenProperties DEF TryRecords
      <4>2. z # 0
        BY <1>11, <1>15, <4>1, EmptySeq DEF TryRecords
      <4> QED
        BY <4>1, <4>2
    <3>3. old \in FrameRecords /\ k \in 0 .. Len(old)
      BY <1>11, <2>1, <3>1, <3>2 DEF FramesAbut, Abut
    <3>4. CallsFrom(org, SubSeq(old, 1, k)) = SubSeq(CallsFrom(org, old), 1, k)
      BY <3>3, MappedCut
    <3> QED
      BY <1>1, <2>1, <2>6, <3>1, <3>4 DEF Facing
  <2>9. r = [s EXCEPT !.tries = tries, !.calls = calls, !.top = b.top, !.ops = ops1,
                      !.ip = b.catch]
    <3>1. /\ DOMAIN s = SyncedFields /\ s.tries = vm.tries /\ s.calls = vm.calls
          /\ s.tries # <<>>
      BY <1>1, <1>15 DEF Facing
    <3> QED
      BY <1>12, <2>1, <2>3, <2>4, <3>1 DEF Raise
  <2>10. n = [t EXCEPT !.tries = tries2, !.calls = calls2, !.top = b.top, !.ops = ops1,
                       !.ip = g.catch]
    <3>1. DOMAIN t = SyncedFields /\ t.tries = e /\ e # <<>>
      BY <1>1, <2>6, <2>7 DEF Facing
    <3> QED
      BY <1>12, <2>3, <2>4, <2>6, <2>7, <3>1 DEF Raise
  <2>11. /\ DOMAIN r = SyncedFields /\ r.ip = b.catch /\ r.ops = ops1 /\ r.locals = vm.locals
         /\ r.top = b.top /\ r.calls = calls /\ r.tries = tries /\ r.heap = vm.heap
         /\ r.out = vm.out /\ r.outcome = "running"
    BY <1>1, <2>9 DEF Facing, SyncedFields, VMFields
  <2>12. IsMachine(n)
    BY <1>1, <2>10 DEF Facing, IsMachine, SyncedFields, VMFields
  <2>13. /\ n.ip = g.catch /\ n.ops = ops1 /\ n.locals = vm.locals
         /\ n.top = b.top /\ n.calls = calls2
         /\ n.tries = tries2 /\ n.heap = vm.heap
         /\ n.out = vm.out /\ n.outcome = "running"
    BY <1>1, <2>10 DEF Facing, SyncedFields, VMFields
  <2>14. /\ n.ip = opt.origin[r.ip] /\ n.calls = CallsFrom(opt.origin, r.calls)
         /\ n.tries = TriesFrom(opt.origin, r.tries)
    BY <2>7, <2>8, <2>11, <2>13
  <2> QED
    BY <1>1, <1>13, <2>5, <2>11, <2>12, <2>13, <2>14, HandledAs
<1> QED
  BY <1>14, <1>15

(* An instruction handed to its handler is the canonical one.                *)
LEMMA DelegateCanonical ==
    ASSUME NEW L, NEW V, VMInv(L, V), Matching(L), FramesAbut, Delegate
    PROVE  AsCanonical
<1>1. PICK o \in Delegated : HandledAt(o)
  BY DEF Delegate, Delegated, HandledAt
<1>2. \/ o = Op.PUSH_STRING \/ o = Op.PRINTLN \/ o = Op.NEW_INSTANCE \/ o = Op.TRY
      \/ o = Op.POP_TRY \/ o = Op.THROW \/ o = Op.HALT
  BY DEF Delegated
<1> QED
  BY <1>1, <1>2, PushStringCanonical, PrintlnCanonical, NewInstanceCanonical, TryCanonical,
     PopTryCanonical, ThrowCanonical, HaltCanonical

-----------------------------------------------------------------------------
(* Any step, and the theorem.                                                *)

(* A step of run_optimized is a run of the canonical code.                   *)
LEMMA StepCanonical ==
    ASSUME NEW L, NEW V, VMInv(L, V), Matching(L), FramesAbut, ~Departs, Step
    PROVE  AsCanonical
<1>1. CASE PushInt \/ PushBool \/ Pop \/ Dup
  BY <1>1, PushIntCanonical, PushBoolCanonical, PopCanonical, DupCanonical
<1>2. CASE LoadLocal \/ StoreLocal \/ LoadSlot \/ StoreSlot
  BY <1>2, LoadLocalCanonical, StoreLocalCanonical, LoadSlotCanonical, StoreSlotCanonical
<1>3. CASE StoreSlotPop \/ StoreLocalPop \/ LoadLoadLocal
  BY <1>3, StoreSlotPopCanonical, StoreLocalPopCanonical, LoadLoadCanonical
<1>4. CASE IncrLocalImm \/ FusedAddStore \/ FusedMulAdd
  BY <1>4, IncrLocalImmCanonical, AddStoreCanonical, MulAddCanonical
<1>5. CASE LoopRangeFast \/ Jump \/ JumpIfFalse \/ Branch3
  BY <1>5, LoopRangeCanonical, JumpCanonical, JumpIfFalseCanonical, Branch3Canonical
<1>6. CASE Binary \/ Quick
  BY <1>6, BinaryCanonical, QuickCanonical
<1>7. CASE GetFieldIC \/ SetFieldIC
  BY <1>7, GetFieldICCanonical, SetFieldICCanonical
<1>8. CASE Call \/ CallFast \/ InvokeMethodIC \/ Ret
  BY <1>8, CallCanonical, CallFastCanonical, InvokeMethodICCanonical, RetCanonical
<1>9. CASE Delegate
  BY <1>9, DelegateCanonical
<1> QED
  BY <1>1, <1>2, <1>3, <1>4, <1>5, <1>6, <1>7, <1>8, <1>9 DEF Step

(* The codes do not change.                                                  *)
LEMMA ChunkStays == Step => chunk' = chunk /\ opt' = opt
<1>1. \/ PushInt \/ PushBool \/ Pop \/ Dup \/ LoadLocal \/ StoreLocal \/ LoadSlot \/ StoreSlot
      \/ StoreSlotPop \/ StoreLocalPop \/ LoadLoadLocal \/ IncrLocalImm \/ FusedAddStore
      \/ FusedMulAdd \/ LoopRangeFast \/ Jump \/ JumpIfFalse \/ Branch3 \/ Call \/ CallFast
      \/ Ret \/ Delegate
      => Plain
  BY DEF PushInt, PushBool, Pop, Dup, LoadLocal, StoreLocal, LoadSlot, StoreSlot,
     StoreSlotPop, StoreLocalPop, LoadLoadLocal, IncrLocalImm, FusedAddStore, FusedMulAdd,
     LoopRangeFast, Jump, JumpIfFalse, Branch3, Call, CallFast, Ret, Delegate
<1>2. Plain => chunk' = chunk /\ opt' = opt
  BY DEF Plain
<1>3. Binary \/ Quick \/ GetFieldIC \/ SetFieldIC \/ InvokeMethodIC => chunk' = chunk /\ opt' = opt
  BY DEF Binary, Quick, GetFieldIC, SetFieldIC, InvokeMethodIC
<1> QED
  BY <1>1, <1>2, <1>3 DEF Step

(* A labelling that fits and says what the code was made from.               *)
Mirrors == \E L, V : VMInv(L, V) /\ Matching(L)

LEMMA StartMirrors ==
    ASSUME Init, NEW L, Verified(opt, L), Faithful(chunk, opt, L)
    PROVE  Mirrors
<1>1. PICK V : VMInv(L, V)
  BY StartFits
<1>2. opt.vtables = chunk.vtables /\ opt.strings = chunk.strings
  BY DEF Init, Optimize, AfterPass1, AfterPass2, AfterScan, Optimized
<1> QED
  BY <1>1, <1>2 DEF Mirrors, Matching

LEMMA MirrorsOn == Mirrors /\ [Next]_vars => Mirrors'
<1> SUFFICES ASSUME Mirrors, [Next]_vars PROVE Mirrors'
  OBVIOUS
<1>1. PICK L, V : VMInv(L, V) /\ Matching(L)
  BY DEF Mirrors
<1>2. chunk' = chunk /\ opt' = opt
  BY ChunkStays DEF Next, Finished, vars
<1>3. Matching(L)'
  BY <1>1, <1>2 DEF Matching
<1>4. \E W : VMInv(L, W)'
  <2>1. CASE Step
    BY <1>1, <2>1, StepInv
  <2>2. CASE UNCHANGED vars
    <3>1. VMInv(L, V)'
      BY <1>1, <2>2, StandsStill
    <3> QED
      BY <3>1
  <2> QED
    BY <2>1, <2>2 DEF Next, Finished
<1> QED
  BY <1>3, <1>4 DEF Mirrors

(* StepsAsCanonical: every instruction run_optimized() executes leaves the   *)
(* variables, operands, frames, handlers, objects and output where running   *)
(* the canonical bytecode it came from, to where the loop goes on, leaves    *)
(* them: whatever values the registers of the stack's top hold, and whatever *)
(* the inline caches have been filled with.  What is assumed of the code is  *)
(* that the translation can be verified (Verified) and that each of its      *)
(* instructions has the operands of the canonical ones it stands for         *)
(* (Faithful), which a scan that mistakes an operand for an opcode would     *)
(* break; and of the execution, that it meets none of the three states where *)
(* the loops part (Departs).                                                 *)
THEOREM StepsOfTheCanonicalCode ==
    ASSUME \A c \in Chunks : \E L : Verified(Optimize(c), L) /\ Faithful(c, Optimize(c), L)
    PROVE  Spec /\ []~Departs => StepsAsCanonical
<1>1. Init => Mirrors
  <2> SUFFICES ASSUME Init PROVE Mirrors
    OBVIOUS
  <2>1. PICK L : Verified(opt, L) /\ Faithful(chunk, opt, L)
    BY DEF Init
  <2> QED
    BY <2>1, StartMirrors
<1>2. Mirrors /\ [Next]_vars => Mirrors'
  BY MirrorsOn
<1>3. Mirrors /\ FramesAbut /\ ~Departs /\ [Next]_vars
      => [Step => SameUpTo(Meaning', RunTo(Meaning, Meaning'.ip))]_vars
  BY StepCanonical DEF Mirrors, AsCanonical
<1>4. \A c \in Chunks : \E L : Verified(Optimize(c), L)
  OBVIOUS
<1>5. Spec => []FramesAbut
  BY <1>4, FramesLieEndToEnd
<1> QED
  BY <1>1, <1>2, <1>3, <1>5, PTL DEF Spec, StepsAsCanonical
=============================================================================
