------------------------ MODULE OptBytecodeOptimizer ------------------------
(* The translation of a canonical chunk into the chunk that run_optimized    *)
(* executes (include/vm/opt_bytecode.hpp): fused instructions, inline cache  *)
(* sites, relocated jumps and function entries, checked frame sizes and      *)
(* cheaper calls, with every OptFlags flag on.                               *)
EXTENDS Bytecode, FiniteSets, FiniteSetsExt, SequencesExt

-----------------------------------------------------------------------------
(* Which ranges of instructions may become one instruction                   *)
(* (src/vm/superinstruction.cpp). *)

InstructionsFrom(code, p) ==
    LET from[q \in Nat] ==
            IF q >= Len(code) THEN {}
            ELSE {q} \cup from[q + CanonicalLen(Byte(code, q))]
    IN  from[p]

JumpTargetsOf(code, p) ==
    IF Byte(code, p) \in Jumps THEN {p + 3 + Int16(code, p + 1)}
    ELSE IF Byte(code, p) = Op.BRANCH_3
    THEN {p + arm + 2 + Int16(code, p + arm) : arm \in {1, 3, 5}}
    ELSE {}

(* The offsets in the vtables are indices of the function table; the code    *)
(* takes them for targets all the same.                                      *)
CollectJumpTargets(ch) ==
    {ch.functions[f] : f \in DOMAIN ch.functions}
        \cup UNION {{ch.vtables[c][n] : n \in DOMAIN ch.vtables[c]} :
                       c \in DOMAIN ch.vtables}
        \cup UNION {JumpTargetsOf(ch.code, p) :
                       p \in InstructionsFrom(ch.code, 0)}

Barriers == {Op.CALL, Op.CALL_FAST_0, Op.CALL_FAST_1, Op.INVOKE_METHOD,
             Op.INVOKE_METHOD_IC, Op.RET, Op.RET_FAST, Op.NEW_INSTANCE,
             Op.TRY, Op.THROW, Op.POP_TRY, Op.BRANCH_3, Op.HALT}

CanFuseRange(code, targets, from, to) ==
    /\ to <= Len(code)
    /\ \A p \in InstructionsFrom(SubSeq(code, 1, to), from) \ {from} :
          p \notin targets /\ Byte(code, p) \notin Barriers

-----------------------------------------------------------------------------
(* Pass 1: the patterns, in the order in which they are tried.  A pattern is *)
(* a set of offsets and the opcodes expected there.                          *)

Matches(code, p, len, pattern) ==
    /\ p + len <= Len(code)
    /\ \A x \in pattern : Byte(code, p + x[1]) = x[2]

LoopHeader ==
    {<<0, Op.LOAD_LOCAL>>, <<3, Op.PUSH_INT>>, <<12, Op.GT>>,
     <<13, Op.LOAD_LOCAL>>, <<16, Op.LOAD_LOCAL>>, <<19, Op.LT>>,
     <<20, Op.TERNARY_MIN>>, <<21, Op.LOAD_LOCAL>>, <<24, Op.PUSH_INT>>,
     <<33, Op.LT>>, <<34, Op.LOAD_LOCAL>>, <<37, Op.LOAD_LOCAL>>,
     <<40, Op.GT>>, <<41, Op.TERNARY_MIN>>, <<42, Op.TERNARY_MAX>>,
     <<43, Op.JUMP_IF_FALSE>>}
MulThenAdd ==
    {<<0, Op.LOAD_LOCAL>>, <<3, Op.LOAD_LOCAL>>, <<6, Op.MUL>>,
     <<7, Op.LOAD_LOCAL>>, <<10, Op.ADD>>, <<11, Op.STORE_LOCAL>>,
     <<14, Op.POP>>}
AddOfMul ==
    {<<0, Op.LOAD_LOCAL>>, <<3, Op.LOAD_LOCAL>>, <<6, Op.LOAD_LOCAL>>,
     <<9, Op.MUL>>, <<10, Op.ADD>>, <<11, Op.STORE_LOCAL>>, <<14, Op.POP>>}
AddStore ==
    {<<0, Op.LOAD_LOCAL>>, <<3, Op.LOAD_LOCAL>>, <<6, Op.ADD>>,
     <<7, Op.STORE_LOCAL>>, <<10, Op.POP>>}
Increment ==
    {<<0, Op.LOAD_LOCAL>>, <<3, Op.PUSH_INT>>, <<12, Op.ADD>>,
     <<13, Op.STORE_LOCAL>>}
StorePop == {<<0, Op.STORE_LOCAL>>, <<3, Op.POP>>}
LoadLoad == {<<0, Op.LOAD_LOCAL>>, <<3, Op.LOAD_LOCAL>>}

(* What replaces len bytes of canonical code: bytes; the places in them that *)
(* hold the distance of a jump, with its canonical target and the place it   *)
(* is counted from; and what an inline cache site has to remember.           *)
Emitted(len, bytes) == [len |-> len, bytes |-> bytes, jumps |-> {},
                        field |-> <<>>, method |-> <<>>]

Copied(code, p, len) == Emitted(len, SubSeq(code, p + 1, p + len))

IncrementsInPlace(code, p) ==
    /\ Matches(code, p, 16, Increment)
    /\ UInt16(code, p + 1) = UInt16(code, p + 14)
    /\ Int64(code, p + 4) \in -32768 .. 32767

(* Offsets of the slots kept, in the order of the new operands. *)
Slots(code, p, offsets) ==
    FlattenSeq([k \in DOMAIN offsets |->
                   SubSeq(code, p + offsets[k] + 1, p + offsets[k] + 2)])

Relocated(code, p, op, len, arms) ==
    [Emitted(len, <<op>> \o [k \in 1 .. len - 1 |-> 0])
        EXCEPT !.jumps = {[pos |-> a, end |-> a + 2,
                           to |-> p + a + 2 + Int16(code, p + a)] : a \in arms}]

(* One step of the pass.  fields and methods count the cache sites so far. *)
TranslateAt(code, targets, p, op, fields, methods) ==
    IF Matches(code, p, 46, LoopHeader) THEN
        [Emitted(46, <<Op.LOOP_RANGE_FAST>> \o Slots(code, p, <<14, 17, 1>>)
                         \o <<0, 0>>)
            EXCEPT !.jumps = {[pos |-> 7, end |-> 9,
                               to |-> p + 46 + Int16(code, p + 44)]}]
    ELSE IF Matches(code, p, 15, MulThenAdd)
              /\ CanFuseRange(code, targets, p, p + 15) THEN
        Emitted(15, <<Op.FUSED_MUL_ADD_I64>> \o Slots(code, p, <<1, 4, 8, 12>>))
    ELSE IF Matches(code, p, 15, AddOfMul)
              /\ CanFuseRange(code, targets, p, p + 15) THEN
        Emitted(15, <<Op.FUSED_MUL_ADD_I64>> \o Slots(code, p, <<4, 7, 1, 12>>))
    ELSE IF Matches(code, p, 11, AddStore)
              /\ CanFuseRange(code, targets, p, p + 11) THEN
        Emitted(11, <<Op.FUSED_ADD_LOCAL_LOCAL_STORE>>
                        \o Slots(code, p, <<1, 4, 8>>))
    ELSE IF IncrementsInPlace(code, p) THEN
        Emitted(16, <<Op.INCR_LOCAL_IMM>> \o Slots(code, p, <<1, 4>>))
    ELSE IF Matches(code, p, 4, StorePop)
              /\ CanFuseRange(code, targets, p, p + 4) THEN
        Emitted(4, IF UInt16(code, p + 1) <= 3
                   THEN <<Op.STORE_LOCAL_0_POP + UInt16(code, p + 1)>>
                   ELSE <<Op.STORE_LOCAL_POP>> \o Slots(code, p, <<1>>))
    ELSE IF Matches(code, p, 6, LoadLoad)
              /\ CanFuseRange(code, targets, p, p + 6) THEN
        Emitted(6, <<Op.LOAD_LOAD_LOCAL>> \o Slots(code, p, <<1, 4>>))
    ELSE IF op = Op.LOAD_LOCAL /\ UInt16(code, p + 1) <= 3 THEN
        Emitted(3, <<Op.LOAD_LOCAL_0 + UInt16(code, p + 1)>>)
    ELSE IF op = Op.STORE_LOCAL /\ UInt16(code, p + 1) <= 3 THEN
        Emitted(3, <<Op.STORE_LOCAL_0 + UInt16(code, p + 1)>>)
    ELSE IF op \in {Op.GET_FIELD, Op.SET_FIELD} THEN
        [Emitted(3, <<IF op = Op.GET_FIELD THEN Op.GET_FIELD_IC
                                           ELSE Op.SET_FIELD_IC>>
                        \o Bytes16(fields))
            EXCEPT !.field = <<UInt16(code, p + 1)>>]
    ELSE IF op = Op.INVOKE_METHOD THEN
        [Emitted(4, <<Op.INVOKE_METHOD_IC>> \o Bytes16(methods)
                        \o <<Byte(code, p + 3)>>)
            EXCEPT !.method = <<UInt16(code, p + 1)>>]
    ELSE IF op \in Jumps THEN Relocated(code, p, op, 3, {1})
    ELSE IF op = Op.BRANCH_3 THEN Relocated(code, p, op, 7, {1, 3, 5})
    ELSE Copied(code, p, CanonicalLen(op))

(* The pass over the whole code, t.next being the offset it has reached.     *)
(* pcMap[k] is where the instruction that holds canonical byte k - 1 begins  *)
(* in the new code, and origin[q] the canonical offset of the instruction    *)
(* that begins at q.                                                         *)
Extended(t, e, q) ==
    [next    |-> t.next + e.len,
     code    |-> t.code \o e.bytes,
     pcMap   |-> t.pcMap \o [k \in 1 .. e.len |-> q],
     origin  |-> (q :> t.next) @@ t.origin,
     jumps   |-> t.jumps \cup {[pos |-> q + j.pos, end |-> q + j.end, to |-> j.to] :
                                 j \in e.jumps},
     fields  |-> t.fields \o e.field,
     methods |-> t.methods \o e.method]

Untranslated ==
    [next |-> 0, code |-> <<>>, pcMap |-> <<>>, origin |-> [x \in {} |-> 0],
     jumps |-> {}, fields |-> <<>>, methods |-> <<>>]

(* after[n]: n steps of the pass, or all there are. *)
Translate(code, targets) ==
    LET after[n \in Nat] ==
            IF n = 0 THEN Untranslated
            ELSE LET t == after[n - 1]
                 IN  IF t.next >= Len(code) THEN t
                     ELSE Extended(t, TranslateAt(code, targets, t.next,
                                          Byte(code, t.next), Len(t.fields), Len(t.methods)),
                                   Len(t.code))
        all == after[Cardinality(InstructionsFrom(code, 0))]
    IN  [all EXCEPT !.pcMap = Append(@, Len(all.code))]

Pass1(ch) == Translate(ch.code, CollectJumpTargets(ch))

-----------------------------------------------------------------------------
(* Pass 2: jumps and function entries. *)

Repatched(t) ==
    LET bytes == [q \in {j.pos : j \in t.jumps} |->
                    LET j == CHOOSE j \in t.jumps : j.pos = q
                    IN  Bytes16(t.pcMap[j.to + 1] - j.end)]
    IN  [k \in DOMAIN t.code |->
            IF k - 1 \in DOMAIN bytes THEN bytes[k - 1][1]
            ELSE IF k - 2 \in DOMAIN bytes THEN bytes[k - 2][2]
            ELSE t.code[k]]

-----------------------------------------------------------------------------
(* The length of an instruction of the new code, as the two scans below see  *)
(* it: 7 for a field access with a cache, which Pass 1 wrote in 3 bytes.     *)
OptLen(op) ==
    CASE op \in {Op.GET_FIELD_IC, Op.SET_FIELD_IC,
                 Op.FUSED_ADD_LOCAL_LOCAL_STORE} -> 7
      [] op \in {Op.LOOP_RANGE_FAST, Op.FUSED_MUL_ADD_I64} -> 9
      [] op \in {Op.INCR_LOCAL_IMM, Op.LOAD_LOAD_LOCAL} -> 5
      [] op = Op.STORE_LOCAL_POP -> 3
      [] OTHER -> CanonicalLen(op)

(* The slots an instruction names. *)
SlotsNamed(code, p, op) ==
    CASE op \in {Op.LOAD_LOCAL, Op.STORE_LOCAL, Op.STORE_LOCAL_POP,
                 Op.INCR_LOCAL_IMM} -> {UInt16(code, p + 1)}
      [] op \in Op.LOAD_LOCAL_0 .. Op.LOAD_LOCAL_0 + 3 -> {op - Op.LOAD_LOCAL_0}
      [] op \in Op.STORE_LOCAL_0 .. Op.STORE_LOCAL_0 + 3 ->
            {op - Op.STORE_LOCAL_0}
      [] op \in Op.STORE_LOCAL_0_POP .. Op.STORE_LOCAL_0_POP + 3 ->
            {op - Op.STORE_LOCAL_0_POP}
      [] op = Op.LOAD_LOAD_LOCAL ->
            {UInt16(code, p + k) : k \in {1, 3}}
      [] op \in {Op.FUSED_ADD_LOCAL_LOCAL_STORE, Op.LOOP_RANGE_FAST} ->
            {UInt16(code, p + k) : k \in {1, 3, 5}}
      [] op = Op.FUSED_MUL_ADD_I64 ->
            {UInt16(code, p + k) : k \in {1, 3, 5, 7}}
      [] OTHER -> {}

(* Slots are charged to the last function of the table, from index 1 on,     *)
(* that starts at or before the instruction; to the top level (0) if none    *)
(* does.                                                                     *)
OwnerOf(functions, p) ==
    Max({0} \cup {f \in DOMAIN functions \ {0} : p >= functions[f]})

Scanned(code) ==
    LET from[q \in Nat] ==
            IF q >= Len(code) THEN {} ELSE {q} \cup from[q + OptLen(Byte(code, q))]
    IN  from[0]

SlotUses(code, functions) ==
    UNION {{<<OwnerOf(functions, p), s>> : s \in SlotsNamed(code, p, Byte(code, p))} :
              p \in {q \in Scanned(code) : q + OptLen(Byte(code, q)) <= Len(code)}}

(* Room for every slot named and 8 more. *)
Needed(uses, fn) == {u[2] + 1 + 8 : u \in {x \in uses : x[1] = fn}}

Frames(ch, functions, uses) ==
    [f \in DOMAIN functions |->
        Max({IF f \in DOMAIN ch.frames THEN ch.frames[f] ELSE 32}
                \cup (IF f = 0 THEN {} ELSE Needed(uses, f)))]

TopFrame(ch, uses) == Max({32, ch.topSize} \cup Needed(uses, 0))

-----------------------------------------------------------------------------
(* Pass 3: calls with at most one argument, and returns. *)

FastCall(functions, frames, code, p) ==
    LET fn   == UInt16(code, p + 1)
        argc == Byte(code, p + 3)
        size == FrameSize([frames |-> frames], fn, argc)
    IN  IF /\ fn \in DOMAIN functions
           /\ functions[fn] <= 65535 /\ size <= 255
           /\ argc \in {0, 1}
        THEN <<IF argc = 0 THEN Op.CALL_FAST_0 ELSE Op.CALL_FAST_1>>
                 \o Bytes16(functions[fn]) \o <<size>>
        ELSE SubSeq(code, p + 1, p + 4)

(* The scan changes bytes it has passed only, and no length. *)
Pass3(functions, frames, code) ==
    LET scanned == Scanned(code)
        calls   == {p \in scanned : Byte(code, p) = Op.CALL /\ p + 3 < Len(code)}
        bytes   == [p \in calls |-> FastCall(functions, frames, code, p)]
        At(k)   == {p \in calls : k \in p + 1 .. p + 4}
    IN  [k \in DOMAIN code |->
            IF At(k) # {} THEN LET p == CHOOSE p \in At(k) : TRUE IN bytes[p][k - p]
            ELSE IF k - 1 \in scanned /\ code[k] = Op.RET THEN Op.RET_FAST
            ELSE code[k]]

WithSentinel(code) ==
    IF code[Len(code)] = Op.HALT THEN code ELSE Append(code, Op.HALT)

-----------------------------------------------------------------------------
Optimized(ch, t, functions, uses, frames, code) ==
    [code    |-> WithSentinel(Pass3(functions, frames, code)),
     functions |-> functions,
     frames  |-> frames,
     topSize |-> TopFrame(ch, uses),
     vtables |-> ch.vtables,
     strings |-> ch.strings,
     fields  |-> t.fields,
     methods |-> t.methods,
     origin  |-> t.origin]

AfterScan(ch, t, functions, uses, code) ==
    Optimized(ch, t, functions, uses, Frames(ch, functions, uses), code)

AfterPass2(ch, t, functions, code) ==
    AfterScan(ch, t, functions, SlotUses(code, functions), code)

AfterPass1(ch, t) ==
    AfterPass2(ch, t, [f \in DOMAIN ch.functions |-> t.pcMap[ch.functions[f] + 1]],
               Repatched(t))

Optimize(ch) == AfterPass1(ch, Pass1(ch))
=============================================================================
