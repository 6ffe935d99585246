--------------------------- MODULE TersunVMProofs ---------------------------
(* Proofs about the interpreter, for every set of chunks, every limit and    *)
(* both families of loops.  Nothing is assumed of a chunk but the ranges of  *)
(* its operands (ChunkAssumption): its jumps may go anywhere and its try     *)
(* blocks may be opened and closed in any order.                             *)
(*                                                                           *)
(* Frame sizes reach local_top_ through two ways: the function table, and    *)
(* closures, which carry theirs through operands, locals and globals.  So    *)
(* the types of frames rest on what is stored in those (ValuesOK).           *)
EXTENDS TersunVM, SequenceTheorems, TLAPS

(* Where the chunk's functions begin. *)
Entries == EntriesOf(chunk)

(* A value that may be called leads to a function and has a frame size, and  *)
(* what it captured is in V.                                                 *)
Sound(v, V) ==
    v.t = "closure" => v.entry \in Entries /\ v.size \in Nat /\ v.captures \in Seq(V)

Closed(V) == \A v \in V : Sound(v, V)

Stored(V) ==
    /\ operands \in Seq(V)
    /\ \A i \in DOMAIN locals : locals[i] \in V
    /\ \A i \in DOMAIN globals : globals[i] \in V

ValuesOK == \E V : Closed(V) /\ Stored(V)

IInv == TypeOK /\ IsChunk(chunk) /\ ValuesOK

-----------------------------------------------------------------------------
(* Sequences cut short. *)

LEMMA Prefix ==
    ASSUME NEW S, NEW s \in Seq(S), NEW n \in Int, n <= Len(s)
    PROVE  /\ SubSeq(s, 1, n) \in Seq(S)
           /\ Len(SubSeq(s, 1, n)) = IF 1 <= n THEN n ELSE 0
           /\ \A i \in 1 .. n : SubSeq(s, 1, n)[i] = s[i]
<1>1. \A i \in 1 .. n : s[i] \in S
  BY ElementOfSeq, LenProperties
<1>. QED  BY <1>1, SubSeqProperties

LEMMA Suffix ==
    ASSUME NEW S, NEW s \in Seq(S), NEW n \in Nat, n <= Len(s)
    PROVE  /\ SubSeq(s, Len(s) - n + 1, Len(s)) \in Seq(S)
           /\ Len(SubSeq(s, Len(s) - n + 1, Len(s))) = n
<1>1. Len(s) \in Nat /\ \A i \in Len(s) - n + 1 .. Len(s) : s[i] \in S
  BY ElementOfSeq, LenProperties
<1>. QED  BY <1>1, SubSeqProperties

LEMMA Truncated ==
    ASSUME NEW S, NEW s \in Seq(S), NEW n \in Nat
    PROVE  /\ Truncate(s, n) \in Seq(S)
           /\ Len(Truncate(s, n)) = Min2(n, Len(s))
           /\ \A i \in 1 .. Min2(n, Len(s)) : Truncate(s, n)[i] = s[i]
<1>1. Len(s) \in Nat /\ Min2(n, Len(s)) \in Nat /\ Min2(n, Len(s)) <= Len(s)
  BY LenProperties DEF Min2
<1>2. (IF 1 <= Min2(n, Len(s)) THEN Min2(n, Len(s)) ELSE 0) = Min2(n, Len(s))
  BY <1>1
<1>. QED  BY <1>1, <1>2, Prefix DEF Truncate

-----------------------------------------------------------------------------
(* Values: what an instruction stores was stored before, or is one new value *)
(* that is sound.                                                            *)

LEMMA Extended ==
    ASSUME NEW V, Closed(V), NEW x, Sound(x, V)
    PROVE  /\ Closed(V \cup {x})
           /\ \A s \in Seq(V) : s \in Seq(V \cup {x})
<1>1. \A s \in Seq(V) : s \in Seq(V \cup {x})
  BY SeqMonotonic
<1>. QED  BY <1>1 DEF Closed, Sound

(* The chunk stays, and so does what is sound. *)
LEMMA ClosedKept ==
    ASSUME NEW V, Closed(V), UNCHANGED chunk
    PROVE  Closed(V)'
BY DEF Closed, Sound, Entries

LEMMA YieldValues ==
    ASSUME NEW V, Closed(V), Stored(V), NEW x, Sound(x, V),
           NEW rest \in Seq(V), Yield(rest, x)
    PROVE  ValuesOK'
<1>. DEFINE W == V \cup {x}
<1>1. Closed(W) /\ rest \in Seq(W)
  BY Extended
<1>2. operands' \in Seq(W)
  BY <1>1, AppendProperties DEF Yield
<1>3. Stored(W)'
  BY <1>2 DEF Stored, Yield
<1>4. Closed(W)'
  BY <1>1, ClosedKept DEF Yield, loaded
<1>. QED  BY <1>3, <1>4 DEF ValuesOK

(* The cells of the locals after a write of stored values. *)
LEMMA CellsStored ==
    ASSUME NEW V, Stored(V), NEW base \in Nat, NEW vals \in Seq(V), NEW n
    PROVE  \A i \in DOMAIN Cells(base, vals, n) : Cells(base, vals, n)[i] \in V
<1>1. Len(vals) \in Nat
  BY LenProperties
<1>2. ASSUME NEW i \in base .. base + Len(vals) - 1
      PROVE  vals[i - base + 1] \in V
  <2>1. i - base + 1 \in 1 .. Len(vals)
    BY <1>1
  <2>. QED  BY <2>1, ElementOfSeq
<1>. QED  BY <1>2 DEF Cells, Stored

LEMMA NilSound ==
    ASSUME NEW V
    PROVE  /\ Sound(Nil, V)
           /\ \A n : Sound(Int64(n), V) /\ Sound(Text(n), V)
BY DEF Sound, Nil, Int64, Text

LEMMA ApplySound ==
    ASSUME NEW V, NEW f \in Operators, NEW a, NEW b
    PROVE  Sound(Apply(f, a, b), V)
<1>1. \E n : Apply(f, a, b) = Int64(n)
  BY DEF Apply, Operators, Bool
<1>. QED  BY <1>1, NilSound

(* The topmost operands, and those below them. *)
LEMMA Divided ==
    ASSUME NEW V, operands \in Seq(V), NEW n \in Nat, Has(n)
    PROVE  /\ Top(n) \in Seq(V)
           /\ Len(Top(n)) = n
           /\ Below(n) \in Seq(V)
<1>1. Len(operands) \in Nat
  BY LenProperties
<1>. QED  BY <1>1, Suffix, Prefix DEF Top, Below, Has

LEMMA TopStored ==
    ASSUME NEW V, operands \in Seq(V), Has(1)
    PROVE  Top(1)[1] \in V /\ Below(1) \in Seq(V)
<1>1. Top(1) \in Seq(V) /\ Len(Top(1)) = 1
  BY Divided
<1>. QED  BY <1>1, ElementOfSeq, Divided

-----------------------------------------------------------------------------
(* Types. *)

(* The instruction about to execute is one of the chunk. *)
LEMMA Fetched ==
    ASSUME IsChunk(chunk), NEW op, At(op)
    PROVE  ip \in Nat /\ IsInstruction(chunk, I) /\ I.op = op
BY DEF IsChunk, At, I

LEMMA LocalBaseType ==
    ASSUME TypeOK
    PROVE  LocalBase \in Nat
<1>1. CASE calls # <<>>
  <2>1. Len(calls) \in 1 .. Len(calls)
    BY <1>1, EmptySeq, LenProperties DEF TypeOK
  <2>2. calls[Len(calls)] \in FrameType
    BY <2>1, ElementOfSeq DEF TypeOK
  <2>. QED  BY <1>1, <2>2 DEF FrameType, LocalBase
<1>. QED  BY <1>1 DEF LocalBase

(* An instruction that leaves the bookkeeping alone. *)
LEMMA QuietTyped ==
    ASSUME TypeOK, IsChunk(chunk), UNCHANGED <<loaded, calls, handlers, outcome>>,
           localTop' \in Nat, localsLen' \in Nat
    PROVE  TypeOK' /\ IsChunk(chunk)'
BY DEF TypeOK, loaded

LEMMA YieldTyped ==
    ASSUME IInv, NEW V, Closed(V), Stored(V), NEW x, Sound(x, V),
           NEW rest \in Seq(V), Yield(rest, x)
    PROVE  IInv'
<1>1. ValuesOK'
  BY YieldValues
<1>2. TypeOK' /\ IsChunk(chunk)'
  BY QuietTyped DEF IInv, Yield, control, TypeOK
<1>. QED  BY <1>1, <1>2 DEF IInv

LEMMA LastHandler ==
    ASSUME TypeOK, handlers # <<>>
    PROVE  /\ Len(handlers) \in 1 .. Len(handlers)
           /\ handlers[Len(handlers)] \in HandlerType
<1>1. Len(handlers) \in 1 .. Len(handlers)
  BY EmptySeq, LenProperties DEF TypeOK
<1>. QED  BY <1>1, ElementOfSeq DEF TypeOK

LEMMA RaiseValues ==
    ASSUME TypeOK, NEW V, Closed(V), Stored(V), NEW m, Sound(m, V),
           NEW rest \in Seq(V), NEW top, NEW len, Raise(m, rest, top, len)
    PROVE  ValuesOK'
<1>0. Closed(V)'
  BY ClosedKept DEF Raise, loaded
<1>1. CASE handlers = <<>>
  BY <1>0, <1>1 DEF Raise, Stored, ValuesOK
<1>2. CASE handlers # <<>>
  <2>. DEFINE h == handlers[Len(handlers)]
  <2>0. PICK x : x = IF mode = "optimized" THEN Text("VM Exception caught") ELSE m
    OBVIOUS
  <2>. DEFINE W == V \cup {x}
  <2>1. h.depth \in Nat
    BY <1>2, LastHandler DEF HandlerType
  <2>2. Truncate(rest, h.depth) \in Seq(V)
    BY <2>1, Truncated
  <2>3. Sound(x, V)
    BY <2>0, NilSound
  <2>4. Closed(W) /\ Truncate(rest, h.depth) \in Seq(W)
    BY <2>2, <2>3, Extended
  <2>5. operands' = Append(Truncate(rest, h.depth), x)
    BY <1>2, <2>0 DEF Raise
  <2>6. operands' \in Seq(W)
    BY <2>4, <2>5, AppendProperties
  <2>7. \A i \in DOMAIN locals' : locals'[i] \in V
    BY <1>2, EmptySeq, CellsStored DEF Raise
  <2>8. Stored(W)'
    BY <2>6, <2>7 DEF Stored, Raise
  <2>9. Closed(W)'
    BY <2>4, ClosedKept DEF Raise, loaded
  <2>. QED  BY <2>8, <2>9 DEF ValuesOK
<1>. QED  BY <1>1, <1>2

LEMMA RaiseTyped ==
    ASSUME IInv, NEW V, Closed(V), Stored(V), NEW m, Sound(m, V),
           NEW rest \in Seq(V), NEW top \in Nat, NEW len \in Nat,
           Raise(m, rest, top, len)
    PROVE  IInv'
<1>1. ValuesOK'
  BY RaiseValues DEF IInv
<1>2. CASE handlers = <<>>
  BY <1>1, <1>2 DEF IInv, TypeOK, Raise, loaded
<1>3. CASE handlers # <<>>
  <2>. DEFINE h == handlers[Len(handlers)]
  <2>1. h \in HandlerType
    BY <1>3, LastHandler DEF IInv
  <2>2. Len(handlers) \in Nat /\ Len(calls) \in Nat
    BY LenProperties DEF IInv, TypeOK
  <2>3. handlers' \in Seq(HandlerType)
    <3>1. handlers' = SubSeq(handlers, 1, Len(handlers) - 1)
      BY <1>3 DEF Raise
    <3>. QED  BY <2>2, <3>1, Prefix DEF IInv, TypeOK
  <2>4. calls' \in Seq(FrameType) /\ Len(calls') <= MaxCallDepth
    <3>1. calls' = Truncate(calls, h.calls)
      BY <1>3 DEF Raise
    <3>2. Len(calls') = Min2(h.calls, Len(calls)) /\ calls' \in Seq(FrameType)
      BY <2>1, <3>1, Truncated DEF IInv, TypeOK, HandlerType
    <3>. QED  BY <2>1, <2>2, <3>2, BoundsAssumption DEF Min2, IInv, TypeOK, HandlerType
  <2>5. localTop' \in Nat /\ localsLen' \in Nat
    BY <1>3, <2>1 DEF Raise, HandlerType, Min2
  <2>. QED  BY <1>1, <1>3, <2>3, <2>4, <2>5 DEF IInv, TypeOK, Raise, loaded
<1>. QED  BY <1>2, <1>3

(* A step that stores only what was stored. *)
LEMMA SameValues ==
    ASSUME NEW V, Closed(V), Stored(V)', UNCHANGED chunk
    PROVE  ValuesOK'
BY ClosedKept DEF ValuesOK

LEMMA EnterTyped ==
    ASSUME IInv, ip \in Nat, NEW V, Closed(V), Stored(V),
           NEW entry, NEW size \in Nat, NEW rest \in Seq(V), NEW args \in Seq(V),
           NEW inlined \in BOOLEAN, Enter(entry, size, rest, args, inlined)
    PROVE  IInv'
<1>. DEFINE top == localTop + size
            len == IF top + Headroom >= localsLen THEN 2 * localsLen ELSE localsLen
<1>1. top \in Nat /\ len \in Nat /\ localTop \in Nat
  BY BoundsAssumption DEF IInv, TypeOK
<1>2. Len(rest) \in Nat /\ Len(calls) \in Nat
  BY LenProperties DEF IInv, TypeOK
<1>3. CASE Len(calls) < MaxCallDepth
  <2>. DEFINE frame == [ret |-> ip + 1, base |-> localTop, depth |-> Len(rest), size |-> size]
  <2>1. frame \in FrameType /\ calls' = Append(calls, frame)
    BY <1>1, <1>2, <1>3 DEF FrameType, Enter
  <2>2. calls' \in Seq(FrameType) /\ Len(calls') = Len(calls) + 1
    BY <2>1, AppendProperties DEF IInv, TypeOK
  <2>3. TypeOK' /\ IsChunk(chunk)'
    BY <1>1, <1>2, <1>3, <2>2, BoundsAssumption DEF Enter, IInv, TypeOK, loaded
  <2>4. \A i \in DOMAIN locals' : locals'[i] \in V
    BY <1>1, <1>3, CellsStored DEF Enter
  <2>5. Stored(V)'
    BY <1>3, <2>4 DEF Stored, Enter
  <2>. QED  BY <1>3, <2>3, <2>5, SameValues DEF IInv, Enter, loaded
<1>4. CASE ~(Len(calls) < MaxCallDepth) /\ inlined
  <2>1. TypeOK' /\ IsChunk(chunk)'
    BY <1>4 DEF Enter, IInv, TypeOK, loaded, data, control
  <2>2. Stored(V)'
    BY <1>4 DEF Enter, Stored, data
  <2>. QED  BY <1>4, <2>1, <2>2, SameValues DEF IInv, Enter, loaded
<1>5. CASE ~(Len(calls) < MaxCallDepth) /\ ~inlined
  <2>1. Raise(Text("CallStack depth limit exceeded"), rest, top, len)
    BY <1>5 DEF Enter
  <2>. QED  BY <1>1, <2>1, NilSound, RaiseTyped
<1>. QED  BY <1>3, <1>4, <1>5

(* The argument of Enter in a call: no smaller than its table entry. *)
LEMMA CallTyped ==
    ASSUME IInv, NEW V, Closed(V), Stored(V), Call
    PROVE  IInv'
<1>. DEFINE f == chunk.functions[I.fn]
<1>1. ip \in Nat /\ I.argc \in Nat /\ f.size \in Nat
  BY Fetched DEF IInv, Call, IsInstruction, IsChunk
<1>2. Below(I.argc) \in Seq(V) /\ Top(I.argc) \in Seq(V)
  BY <1>1, Divided DEF Call, Stored
<1>3. Max2(f.size, I.argc + 8) \in Nat
  BY <1>1 DEF Max2
<1>4. Enter(f.entry, Max2(f.size, I.argc + 8), Below(I.argc), Top(I.argc),
            mode = "optimized")
  BY DEF Call
<1>. QED  BY <1>1, <1>2, <1>3, <1>4, EnterTyped

(* What an indirect call does, its operands named. *)
LEMMA CallIndirectMeans ==
    ASSUME IInv, NEW V, Closed(V), Stored(V), CallIndirect
    PROVE  \/ \E rest \in Seq(V) :
                Raise(Text("not a function"), rest, localTop, localsLen)
           \/ \E entry \in Entries, size \in Nat, rest \in Seq(V), args \in Seq(V) :
                Enter(entry, size, rest, args, FALSE)
<1>. DEFINE c    == Top(1)[1]
            rest == Below(1)
            args == SubSeq(rest, Len(rest) - I.argc + 1, Len(rest))
            kept == SubSeq(rest, 1, Len(rest) - I.argc)
<1>1. c \in V /\ rest \in Seq(V)
  BY TopStored DEF CallIndirect, Stored
<1>2. CASE c.t # "closure"
  BY <1>1, <1>2 DEF CallIndirect
<1>3. CASE c.t = "closure"
  <2>1. c.entry \in Entries /\ c.size \in Nat /\ c.captures \in Seq(V)
    BY <1>1, <1>3 DEF Closed, Sound
  <2>2. I.argc \in Nat /\ Len(rest) >= I.argc
    <3>1. IsInstruction(chunk, I) /\ I.op = "CallIndirect"
      BY Fetched DEF CallIndirect, IInv
    <3>2. I.argc \in Nat
      BY <3>1 DEF IsInstruction
    <3>. QED  BY <1>3, <3>2 DEF CallIndirect
  <2>3. args \in Seq(V) /\ kept \in Seq(V)
    <3>1. Len(rest) \in Nat
      BY <1>1, LenProperties
    <3>. QED  BY <1>1, <2>2, <3>1, Suffix, Prefix
  <2>4. args \o c.captures \in Seq(V)
    BY <2>1, <2>3, ConcatProperties
  <2>5. Max2(c.size, I.argc + Len(c.captures) + 8) \in Nat
    BY <2>1, <2>2, LenProperties DEF Max2
  <2>6. Enter(c.entry, Max2(c.size, I.argc + Len(c.captures) + 8), kept,
              args \o c.captures, FALSE)
    BY <1>3 DEF CallIndirect
  <2>. QED  BY <2>1, <2>3, <2>4, <2>5, <2>6
<1>. QED  BY <1>2, <1>3

LEMMA CallIndirectTyped ==
    ASSUME IInv, NEW V, Closed(V), Stored(V), CallIndirect
    PROVE  IInv'
<1>1. ip \in Nat /\ localTop \in Nat /\ localsLen \in Nat
  BY Fetched DEF IInv, CallIndirect, TypeOK
<1>2. ASSUME NEW rest \in Seq(V),
             Raise(Text("not a function"), rest, localTop, localsLen)
      PROVE  IInv'
  BY <1>1, <1>2, NilSound, RaiseTyped
<1>3. ASSUME NEW entry \in Entries, NEW size \in Nat, NEW rest \in Seq(V),
             NEW args \in Seq(V), Enter(entry, size, rest, args, FALSE)
      PROVE  IInv'
  BY <1>1, <1>3, EnterTyped
<1>. QED  BY <1>2, <1>3, CallIndirectMeans

(* The instructions that turn operands into operands. *)
LEMMA OperandsTyped ==
    ASSUME IInv, NEW V, Closed(V), Stored(V),
           Push \/ Dup \/ Binary \/ Input \/ PrintValue \/ LoadGlobal
    PROVE  IInv'
<1>0. operands \in Seq(V)
  BY DEF Stored
<1>1. CASE Push
  <2>1. IsInstruction(chunk, I) /\ I.op = "Push"
    BY <1>1, Fetched DEF Push, IInv
  <2>2. Sound(I.v, V)
    BY <2>1 DEF IsInstruction, Sound
  <2>. QED  BY <1>0, <1>1, <2>2, YieldTyped DEF Push
<1>2. CASE Dup
  <2>1. Sound(Top(1)[1], V)
    BY <1>2, TopStored DEF Dup, Stored, Closed
  <2>. QED  BY <1>0, <1>2, <2>1, YieldTyped DEF Dup
<1>3. CASE Binary
  <2>1. IsInstruction(chunk, I) /\ I.op = "Binary"
    BY <1>3, Fetched DEF Binary, IInv
  <2>2. Sound(Apply(I.f, Top(2)[1], Top(2)[2]), V)
    BY <2>1, ApplySound DEF IsInstruction
  <2>3. Below(2) \in Seq(V)
    BY <1>0, <1>3, Divided DEF Binary
  <2>. QED  BY <1>3, <2>2, <2>3, YieldTyped DEF Binary
<1>4. CASE Input
  BY <1>0, <1>4, NilSound, YieldTyped DEF Input
<1>5. CASE PrintValue
  BY <1>0, <1>5, NilSound, TopStored, YieldTyped DEF PrintValue
<1>6. CASE LoadGlobal
  <2>1. Sound(IF I.slot \in DOMAIN globals THEN globals[I.slot] ELSE Nil, V)
    BY NilSound DEF Stored, Closed
  <2>. QED  BY <1>0, <1>6, <2>1, YieldTyped DEF LoadGlobal
<1>. QED  BY <1>1, <1>2, <1>3, <1>4, <1>5, <1>6

(* The values a closure captures were stored. *)
LEMMA ClosureTyped ==
    ASSUME IInv, NEW V, Closed(V), Stored(V), Closure
    PROVE  IInv'
<1>. DEFINE f == chunk.functions[I.fn]
            c == [t |-> "closure", entry |-> f.entry, size |-> f.size,
                  captures |-> Top(I.count)]
<1>1. IsInstruction(chunk, I) /\ I.op = "Closure"
  BY Fetched DEF Closure, IInv
<1>2. I.fn \in DOMAIN chunk.functions /\ I.count \in Nat
  BY <1>1 DEF IsInstruction
<1>3. f.entry \in Nat /\ f.size \in Nat
  BY <1>2 DEF IInv, IsChunk
<1>4. Top(I.count) \in Seq(V) /\ Below(I.count) \in Seq(V)
  BY <1>2, Divided DEF Closure, Stored
<1>5. Sound(c, V)
  <2>1. f.entry \in Entries
    BY <1>2 DEF Entries, EntriesOf
  <2>. QED  BY <1>3, <1>4, <2>1 DEF Sound
<1>6. Yield(Below(I.count), c)
  BY DEF Closure
<1>. QED  BY <1>4, <1>5, <1>6, YieldTyped

(* The instructions that move values between operands and variables, and the *)
(* jumps.                                                                    *)
LEMMA VariablesTyped ==
    ASSUME IInv, NEW V, Closed(V), Stored(V),
           \/ Pop \/ LoadLocal \/ StoreLocal \/ StoreGlobal
           \/ Jump \/ JumpIfFalse \/ Branch3 \/ Stop
    PROVE  IInv'
<1>0. /\ operands \in Seq(V) /\ LocalBase \in Nat
      /\ localTop \in Nat /\ localsLen \in Nat
  BY LocalBaseType DEF Stored, IInv, TypeOK
<1>1. CASE Pop
  <2>1. Stored(V)'
    BY <1>0, <1>1, TopStored DEF Pop, Stored
  <2>. QED  BY <1>0, <1>1, <2>1, SameValues, QuietTyped DEF Pop, IInv, control, loaded
<1>2. CASE LoadLocal
  <2>. DEFINE idx == LocalBase + I.slot
  <2>1. IsInstruction(chunk, I) /\ I.op = "LoadLocal"
    BY <1>2, Fetched DEF LoadLocal, IInv
  <2>2. idx \in Nat
    BY <1>0, <2>1 DEF IsInstruction
  <2>3. TypeOK' /\ IsChunk(chunk)'
    BY <1>0, <1>2, <2>2, QuietTyped DEF LoadLocal, IInv, control
  <2>4. PICK x : x = Cell(idx)
    OBVIOUS
  <2>5. Sound(x, V)
    BY <2>4, NilSound DEF Cell, Stored, Closed
  <2>6. operands' = Append(operands, x)
    BY <1>2, <2>4 DEF LoadLocal
  <2>7. Closed(V \cup {x}) /\ operands' \in Seq(V \cup {x})
    BY <1>0, <2>5, <2>6, Extended, AppendProperties
  <2>8. Stored(V \cup {x})'
    BY <1>2, <2>7 DEF LoadLocal, Stored
  <2>. QED  BY <1>2, <2>3, <2>7, <2>8, SameValues DEF IInv, LoadLocal, loaded
<1>3. CASE StoreLocal
  <2>. DEFINE idx   == LocalBase + I.slot
              grows == mode = "optimized" /\ idx >= localTop
              len   == IF grows /\ idx + 8 + Headroom >= localsLen
                       THEN 2 * localsLen ELSE localsLen
  <2>1. IsInstruction(chunk, I) /\ I.op = "StoreLocal"
    BY <1>3, Fetched DEF StoreLocal, IInv
  <2>2. idx \in Nat
    BY <1>0, <2>1 DEF IsInstruction
  <2>3. localTop' \in Nat /\ localsLen' \in Nat
    BY <1>0, <1>3, <2>2 DEF StoreLocal
  <2>4. TypeOK' /\ IsChunk(chunk)'
    BY <1>3, <2>3, QuietTyped DEF StoreLocal, IInv
  <2>5. Top(1) \in Seq(V)
    BY <1>0, <1>3, Divided DEF StoreLocal
  <2>6. \A i \in DOMAIN locals' : locals'[i] \in V
    BY <1>3, <2>2, <2>5, CellsStored DEF StoreLocal
  <2>7. Stored(V)'
    BY <1>3, <2>6 DEF StoreLocal, Stored
  <2>. QED  BY <1>3, <2>4, <2>7, SameValues DEF IInv, StoreLocal, loaded
<1>4. CASE StoreGlobal
  <2>1. Top(1)[1] \in V
    BY <1>0, <1>4, TopStored DEF StoreGlobal
  <2>2. Stored(V)'
    BY <1>4, <2>1 DEF StoreGlobal, Stored
  <2>. QED  BY <1>0, <1>4, <2>2, SameValues, QuietTyped DEF StoreGlobal, IInv, control, loaded
<1>5. CASE Jump \/ JumpIfFalse \/ Branch3
  <2>1. operands' \in Seq(V)
    BY <1>0, <1>5, TopStored DEF Jump, JumpIfFalse, Branch3
  <2>2. UNCHANGED <<loaded, locals, localsLen, globals, control, outcome>>
    BY <1>5 DEF Jump, JumpIfFalse, Branch3, GoTo
  <2>3. Stored(V)'
    BY <2>1, <2>2 DEF Stored
  <2>. QED  BY <1>0, <2>2, <2>3, SameValues, QuietTyped DEF IInv, control, loaded
<1>6. CASE Stop
  <2>1. Stored(V)'
    BY <1>6 DEF Stop, Stored, data
  <2>. QED  BY <1>6, <2>1, SameValues DEF Stop, IInv, TypeOK, loaded, data, control
<1>. QED  BY <1>1, <1>2, <1>3, <1>4, <1>5, <1>6

LEMMA RetTyped ==
    ASSUME IInv, NEW V, Closed(V), Stored(V), Ret
    PROVE  IInv'
<1>. DEFINE frame == calls[Len(calls)]
<1>0. calls \in Seq(FrameType) /\ Len(calls) \in Nat
  BY LenProperties DEF IInv, TypeOK
<1>1. Len(calls) >= 1 /\ Len(calls) \in 1 .. Len(calls)
  BY <1>0, EmptySeq DEF Ret
<1>2. frame.base \in Nat /\ frame.depth \in Nat
  <2>1. frame \in FrameType
    BY <1>0, <1>1, ElementOfSeq
  <2>. QED  BY <2>1 DEF FrameType
<1>3. calls' \in Seq(FrameType) /\ Len(calls') = Len(calls) - 1
  <2>1. calls' = SubSeq(calls, 1, Len(calls) - 1)
    BY DEF Ret
  <2>. DEFINE n == Len(calls) - 1
  <2>2. n \in Nat /\ n <= Len(calls)
    BY <1>0, <1>1
  <2>. HIDE DEF n
  <2>3. SubSeq(calls, 1, n) \in Seq(FrameType) /\ Len(SubSeq(calls, 1, n)) = n
    BY <1>0, <2>2, Prefix
  <2>. QED  BY <2>1, <2>3 DEF n
<1>4. TypeOK' /\ IsChunk(chunk)'
  BY <1>0, <1>1, <1>2, <1>3, BoundsAssumption DEF Ret, IInv, TypeOK, loaded
<1>5. Top(1)[1] \in V /\ Below(1) \in Seq(V)
  BY TopStored DEF Ret, Stored
<1>6. operands' \in Seq(V)
  BY <1>2, <1>5, Truncated, AppendProperties DEF Ret
<1>7. Stored(V)'
  BY <1>6 DEF Ret, Stored
<1>. QED  BY <1>4, <1>7, SameValues DEF IInv, Ret, loaded

LEMMA TryTyped ==
    ASSUME IInv, NEW V, Closed(V), Stored(V), Try \/ PopTry
    PROVE  IInv'
<1>1. Stored(V)'
  BY DEF Try, PopTry, Stored, data
<1>2. handlers \in Seq(HandlerType)
  BY DEF IInv, TypeOK
<1>3. CASE Try
  <2>. DEFINE h == [catchIp |-> I.to, depth |-> Len(operands),
                    localsLen |-> localTop, calls |-> Len(calls)]
  <2>1. IsInstruction(chunk, I) /\ I.op = "Try"
    BY <1>3, Fetched DEF Try, IInv
  <2>2. I.to \in Nat
    BY <2>1 DEF IsInstruction
  <2>3. Len(operands) \in Nat /\ Len(calls) \in Nat /\ localTop \in Nat
    BY LenProperties DEF Stored, IInv, TypeOK
  <2>4. h \in HandlerType
    BY <2>2, <2>3 DEF HandlerType
  <2>5. handlers' \in Seq(HandlerType)
    BY <1>2, <1>3, <2>4, AppendProperties DEF Try
  <2>. QED  BY <1>1, <1>3, <2>5, SameValues DEF Try, IInv, TypeOK, loaded, data
<1>4. CASE PopTry
  <2>1. handlers' = SubSeq(handlers, 1, Len(handlers) - 1)
    BY <1>4 DEF PopTry
  <2>2. Len(handlers) \in Nat
    BY <1>2, LenProperties
  <2>3. handlers' \in Seq(HandlerType)
    BY <1>2, <2>1, <2>2, Prefix
  <2>. QED  BY <1>1, <1>4, <2>3, SameValues DEF PopTry, IInv, TypeOK, loaded, data
<1>. QED  BY <1>3, <1>4

LEMMA ThrowTyped ==
    ASSUME IInv, NEW V, Closed(V), Stored(V), Throw
    PROVE  IInv'
<1>1. Sound(Top(1)[1], V) /\ Below(1) \in Seq(V)
  BY TopStored DEF Throw, Stored, Closed
<1>2. localTop \in Nat /\ localsLen \in Nat
  BY DEF IInv, TypeOK
<1>. QED  BY <1>1, <1>2, RaiseTyped DEF Throw

LEMMA DivideByZeroMeans ==
    ASSUME IInv, NEW V, Closed(V), Stored(V), DivideByZero
    PROVE  \/ /\ outcome' = "escaped"
              /\ UNCHANGED <<loaded, ip, data, control, world>>
           \/ \E rest \in Seq(V) :
                Raise(Text("Division by zero in integer arithmetic."), rest,
                      localTop, localsLen)
<1>1. Below(2) \in Seq(V)
  BY Divided DEF DivideByZero, Stored
<1>. QED  BY <1>1 DEF DivideByZero

LEMMA DivideByZeroTyped ==
    ASSUME IInv, NEW V, Closed(V), Stored(V), DivideByZero
    PROVE  IInv'
<1>1. localTop \in Nat /\ localsLen \in Nat
  BY DEF IInv, TypeOK
<1>2. CASE outcome' = "escaped" /\ UNCHANGED <<loaded, ip, data, control, world>>
  <2>1. TypeOK' /\ IsChunk(chunk)'
    BY <1>2 DEF IInv, TypeOK, loaded, data, control
  <2>2. Stored(V)'
    BY <1>2 DEF Stored, data
  <2>. QED  BY <1>2, <2>1, <2>2, SameValues DEF IInv, loaded
<1>3. ASSUME NEW rest \in Seq(V),
             Raise(Text("Division by zero in integer arithmetic."), rest,
                   localTop, localsLen)
      PROVE  IInv'
  BY <1>1, <1>3, NilSound, RaiseTyped
<1>. QED  BY <1>2, <1>3, DivideByZeroMeans

LEMMA InitTyped == Init => IInv
<1>. SUFFICES ASSUME Init PROVE IInv
  OBVIOUS
<1>1. IsChunk(chunk)
  BY ChunkAssumption DEF Init
<1>2. localTop \in Nat
  BY <1>1, BoundsAssumption DEF Init, IsChunk, Max2
<1>3. TypeOK
  BY <1>2, EmptySeq, BoundsAssumption DEF Init, TypeOK
<1>4. Closed({}) /\ Stored({})
  BY EmptySeq DEF Init, Closed, Stored
<1>. QED  BY <1>1, <1>3, <1>4 DEF IInv, ValuesOK

LEMMA NextTyped == IInv /\ [Next]_vars => IInv'
<1>. SUFFICES ASSUME IInv, [Next]_vars PROVE IInv'
  OBVIOUS
<1>1. PICK V : Closed(V) /\ Stored(V)
  BY DEF IInv, ValuesOK
<1>2. CASE UNCHANGED vars
  <2>1. Stored(V)'
    BY <1>1, <1>2 DEF Stored, vars, data
  <2>. QED  BY <1>1, <1>2, <2>1, SameValues
            DEF vars, IInv, TypeOK, loaded, data, control
<1>3. CASE Ended
  BY <1>2, <1>3 DEF Ended
<1>4. CASE Step
  BY <1>1, <1>4, OperandsTyped, ClosureTyped, VariablesTyped, CallTyped,
     CallIndirectTyped, RetTyped, TryTyped, ThrowTyped,
     DivideByZeroTyped DEF Step
<1>. QED  BY <1>2, <1>3, <1>4 DEF Next

(* The interpreter's bookkeeping keeps its types whatever the code does, and *)
(* the frame arena never holds more than its limit (fixed_frame_arena.hpp):  *)
(* unbalanced try blocks and jumps out of functions included.                *)
THEOREM VMTypeOK == Spec => []TypeOK
<1>1. IInv => TypeOK
  BY DEF IInv
<1>. QED  BY <1>1, InitTyped, NextTyped, PTL DEF Spec

-----------------------------------------------------------------------------
(* Frames.  The invariant is FramesApart itself: it speaks of all pairs of   *)
(* frames, not of neighbours only, and of what each handler will restore.    *)

LEMMA FrameEndType ==
    ASSUME TypeOK, IsChunk(chunk)
    PROVE  \A i \in 0 .. Len(calls) : FrameEnd(i) \in Nat
<1>1. \A i \in 1 .. Len(calls) : calls[i] \in FrameType
  BY ElementOfSeq DEF TypeOK
<1>2. Len(calls) \in Nat
  BY LenProperties DEF TypeOK
<1>. QED  BY <1>1, <1>2 DEF FrameEnd, FrameType, IsChunk

(* Frames that stay end where they ended. *)
LEMMA FrameEndKept ==
    ASSUME NEW n \in Nat, UNCHANGED chunk, \A i \in 1 .. n : calls'[i] = calls[i]
    PROVE  \A i \in 0 .. n : FrameEnd(i)' = FrameEnd(i)
BY DEF FrameEnd

LEMMA InitFrames ==
    ASSUME Init, "portable" \in Modes => \A p \in Programs : ChunkOf[p].topSize <= InitialTop
    PROVE  FramesApart
<1>1. chunk.topSize \in Nat
  BY ChunkAssumption DEF Init, IsChunk
<1>2. localTop >= chunk.topSize
  BY <1>1, BoundsAssumption DEF Init, Max2
<1>. QED  BY <1>2, EmptySeq DEF Init, FramesApart, FrameEnd

(* When the n outermost frames and the k outermost handlers stay, only       *)
(* local_top_ can spoil FramesApart.                                         *)
LEMMA CutFrames ==
    ASSUME TypeOK, IsChunk(chunk), FramesApart, UNCHANGED chunk,
           NEW n \in 0 .. Len(calls), Len(calls') = n,
           \A i \in 1 .. n : calls'[i] = calls[i],
           NEW k \in 0 .. Len(handlers), Len(handlers') = k,
           \A i \in 1 .. k : handlers'[i] = handlers[i],
           \A i \in 0 .. n : localTop' >= FrameEnd(i)
    PROVE  FramesApart'
<1>1. Len(calls) \in Nat /\ Len(handlers) \in Nat /\ n \in Nat
  BY LenProperties DEF TypeOK
<1>2. \A i \in 0 .. n : FrameEnd(i)' = FrameEnd(i)
  BY <1>1, FrameEndKept
<1>3. ASSUME NEW i \in 0 .. n, NEW j \in i + 1 .. n
      PROVE  calls'[j].base >= FrameEnd(i)'
  BY <1>1, <1>2 DEF FramesApart
<1>4. ASSUME NEW h \in 1 .. k, NEW i \in 0 .. Min2(handlers'[h].calls, n)
      PROVE  handlers'[h].localsLen >= FrameEnd(i)'
  <2>1. h \in 1 .. Len(handlers) /\ handlers'[h] = handlers[h]
    BY <1>1
  <2>2. handlers[h].calls \in Nat
    <3>1. handlers[h] \in HandlerType
      BY <2>1, ElementOfSeq DEF TypeOK
    <3>. QED  BY <3>1 DEF HandlerType
  <2>3. i \in 0 .. n /\ i \in 0 .. Min2(handlers[h].calls, Len(calls))
    BY <1>1, <2>1, <2>2 DEF Min2
  <2>. QED  BY <1>2, <2>1, <2>3 DEF FramesApart
<1>. QED  BY <1>2, <1>3, <1>4 DEF FramesApart

LEMMA QuietFrames ==
    ASSUME TypeOK, IsChunk(chunk), FramesApart, UNCHANGED <<chunk, calls, handlers>>,
           localTop' \in Nat, localTop' >= localTop
    PROVE  FramesApart'
<1>1. Len(calls) \in 0 .. Len(calls) /\ Len(handlers) \in 0 .. Len(handlers)
  BY LenProperties DEF TypeOK
<1>2. \A i \in 0 .. Len(calls) : localTop' >= FrameEnd(i)
  BY FrameEndType DEF TypeOK, FramesApart
<1>. QED  BY <1>1, <1>2, CutFrames

LEMMA RaiseFrames ==
    ASSUME TypeOK, IsChunk(chunk), FramesApart,
           NEW m, NEW rest, NEW top \in Nat, top >= localTop, NEW len,
           Raise(m, rest, top, len)
    PROVE  FramesApart'
<1>1. CASE handlers = <<>>
  BY <1>1, QuietFrames DEF Raise, loaded
<1>2. CASE handlers # <<>>
  <2>. DEFINE h == handlers[Len(handlers)]
              k == Len(handlers) - 1
              n == Min2(h.calls, Len(calls))
  <2>1. h \in HandlerType /\ Len(handlers) \in 1 .. Len(handlers)
    BY <1>2, LastHandler
  <2>2. h.calls \in Nat /\ h.localsLen \in Nat
    BY <2>1 DEF HandlerType
  <2>3. /\ Len(calls) \in Nat /\ calls \in Seq(FrameType)
        /\ Len(handlers) \in Nat /\ handlers \in Seq(HandlerType)
    BY LenProperties DEF TypeOK
  <2>4. n \in 0 .. Len(calls) /\ k \in 0 .. Len(handlers)
    BY <2>1, <2>2, <2>3 DEF Min2
  <2>5. Len(calls') = n /\ \A i \in 1 .. n : calls'[i] = calls[i]
    <3>1. calls' = Truncate(calls, h.calls)
      BY <1>2 DEF Raise
    <3>. QED  BY <2>2, <2>3, <3>1, Truncated
  <2>6. Len(handlers') = k /\ \A i \in 1 .. k : handlers'[i] = handlers[i]
    <3>1. handlers' = SubSeq(handlers, 1, k)
      BY <1>2 DEF Raise
    <3>2. k \in Nat /\ k <= Len(handlers)
      BY <2>1, <2>3
    <3>. HIDE DEF k
    <3>. QED  BY <2>3, <3>1, <3>2, Prefix
  <2>7. \A i \in 0 .. n : localTop' >= FrameEnd(i)
    <3>1. localTop' = IF mode = "optimized" THEN h.localsLen ELSE top
      BY <1>2 DEF Raise
    <3>2. \A i \in 0 .. n : h.localsLen >= FrameEnd(i)
      BY <2>1 DEF FramesApart
    <3>3. \A i \in 0 .. n : top >= FrameEnd(i)
      <4>1. \A i \in 0 .. n : i \in 0 .. Len(calls)
        BY <2>3, <2>4
      <4>2. \A i \in 0 .. n : localTop >= FrameEnd(i) /\ FrameEnd(i) \in Nat
        BY <4>1, FrameEndType DEF FramesApart
      <4>. QED  BY <4>2 DEF TypeOK
    <3>. QED  BY <3>1, <3>2, <3>3
  <2>8. UNCHANGED chunk
    BY DEF Raise, loaded
  <2>. HIDE DEF n, k
  <2>. QED  BY <2>4, <2>5, <2>6, <2>7, <2>8, CutFrames
<1>. QED  BY <1>1, <1>2

(* A new frame begins where local_top_ was.  A handler of a function that has*)
(* returned would now speak of the new frame: HandlersLive excludes it.      *)
LEMMA EnterFrames ==
    ASSUME TypeOK, IsChunk(chunk), FramesApart, HandlersLive, NEW entry,
           NEW size \in Nat, NEW rest, NEW args, NEW inlined \in BOOLEAN,
           Enter(entry, size, rest, args, inlined)
    PROVE  FramesApart'
<1>. DEFINE top == localTop + size
            len == IF top + Headroom >= localsLen THEN 2 * localsLen ELSE localsLen
<1>. PICK n \in Nat : n = Len(calls)
  BY LenProperties DEF TypeOK
<1>0. localTop \in Nat /\ top \in Nat /\ calls \in Seq(FrameType)
  BY DEF TypeOK
<1>1. CASE n < MaxCallDepth
  <2>. DEFINE frame == [ret |-> ip + 1, base |-> localTop, depth |-> Len(rest), size |-> size]
  <2>1. calls' = Append(calls, frame) /\ UNCHANGED <<chunk, handlers>> /\ localTop' = top
    BY <1>1 DEF Enter, loaded
  <2>2. /\ Len(calls') = n + 1
        /\ \A i \in 1 .. n : calls'[i] = calls[i]
        /\ calls'[n + 1] = frame
    <3>1. calls \in Seq(FrameType \cup {frame})
      BY <1>0, SeqMonotonic
    <3>. QED  BY <2>1, <3>1, AppendProperties
  <2>3. \A i \in 0 .. n : /\ FrameEnd(i)' = FrameEnd(i) /\ FrameEnd(i) \in Nat
                          /\ localTop >= FrameEnd(i)
    BY <1>0, <2>1, <2>2, FrameEndKept, FrameEndType DEF FramesApart
  <2>4. FrameEnd(n + 1)' = top
    BY <1>0, <2>2 DEF FrameEnd
  <2>5. \A i \in 0 .. n + 1 : localTop' >= FrameEnd(i)'
    BY <1>0, <2>1, <2>3, <2>4
  <2>6. ASSUME NEW i \in 0 .. n + 1, NEW j \in i + 1 .. n + 1
        PROVE  calls'[j].base >= FrameEnd(i)'
    <3>1. CASE j = n + 1
      BY <1>0, <2>2, <2>3, <3>1
    <3>2. CASE j # n + 1
      <4>1. i \in 0 .. n /\ j \in i + 1 .. n /\ j \in 1 .. n
        BY <1>0, <3>2
      <4>. QED  BY <2>2, <2>3, <4>1 DEF FramesApart
    <3>. QED  BY <3>1, <3>2
  <2>7. ASSUME NEW h \in 1 .. Len(handlers), NEW i \in 0 .. Min2(handlers[h].calls, n + 1)
        PROVE  handlers[h].localsLen >= FrameEnd(i)'
    <3>1. handlers[h] \in HandlerType
      BY ElementOfSeq DEF TypeOK
    <3>2. handlers[h].calls \in Nat /\ handlers[h].calls <= n
      BY <3>1 DEF HandlersLive, HandlerType
    <3>3. i \in 0 .. n /\ i \in 0 .. Min2(handlers[h].calls, n)
      BY <1>0, <3>2 DEF Min2
    <3>. QED  BY <2>3, <3>3 DEF FramesApart
  <2>8. \A i \in 0 .. Len(calls') :
           /\ localTop' >= FrameEnd(i)'
           /\ \A j \in i + 1 .. Len(calls') : calls'[j].base >= FrameEnd(i)'
    BY <2>2, <2>5, <2>6
  <2>9. \A h \in 1 .. Len(handlers') :
           \A i \in 0 .. Min2(handlers'[h].calls, Len(calls')) :
               handlers'[h].localsLen >= FrameEnd(i)'
    BY <2>1, <2>2, <2>7
  <2>. QED  BY <2>8, <2>9 DEF FramesApart
<1>2. CASE ~(n < MaxCallDepth) /\ inlined
  BY <1>0, <1>2, QuietFrames DEF Enter, loaded, control
<1>3. CASE ~(n < MaxCallDepth) /\ ~inlined
  <2>1. Raise(Text("CallStack depth limit exceeded"), rest, top, len)
    BY <1>3 DEF Enter
  <2>2. top \in Nat /\ top >= localTop
    BY <1>0
  <2>. HIDE DEF top, len
  <2>. QED  BY <2>1, <2>2, RaiseFrames
<1>. QED  BY <1>1, <1>2, <1>3

LEMMA RetFrames ==
    ASSUME TypeOK, IsChunk(chunk), FramesApart, Ret
    PROVE  FramesApart'
<1>. PICK m \in Nat : m = Len(calls)
  BY LenProperties DEF TypeOK
<1>0. m >= 1 /\ calls \in Seq(FrameType) /\ Len(handlers) \in Nat
  BY EmptySeq, LenProperties DEF TypeOK, Ret
<1>. DEFINE n == m - 1
<1>1. n \in 0 .. m /\ n \in Nat
  BY <1>0
<1>2. calls' = SubSeq(calls, 1, n) /\ localTop' = calls[m].base
      /\ UNCHANGED <<chunk, handlers>>
  BY DEF Ret, loaded
<1>3. \A i \in 0 .. n : localTop' >= FrameEnd(i)
  <2>1. \A i \in 0 .. n : i \in 0 .. m /\ m \in i + 1 .. m
    BY <1>0
  <2>. QED  BY <1>2, <2>1 DEF FramesApart
<1>. HIDE DEF n
<1>4. Len(calls') = n /\ \A i \in 1 .. n : calls'[i] = calls[i]
  BY <1>0, <1>1, <1>2, Prefix
<1>. QED  BY <1>0, <1>1, <1>2, <1>3, <1>4, CutFrames

LEMMA TryFrames ==
    ASSUME TypeOK, IsChunk(chunk), FramesApart, Try
    PROVE  FramesApart'
<1>. PICK k \in Nat : k = Len(handlers)
  BY LenProperties DEF TypeOK
<1>. PICK h : h = [catchIp |-> I.to, depth |-> Len(operands),
                   localsLen |-> localTop, calls |-> Len(calls)]
  OBVIOUS
<1>1. handlers' = Append(handlers, h) /\ UNCHANGED <<chunk, calls, localTop>>
  BY DEF Try, loaded
<1>2. /\ Len(handlers') = k + 1
      /\ \A i \in 1 .. k : handlers'[i] = handlers[i]
      /\ handlers'[k + 1] = h
  <2>1. handlers \in Seq(HandlerType \cup {h})
    BY SeqMonotonic DEF TypeOK
  <2>. QED  BY <1>1, <2>1, AppendProperties
<1>3. \A i : FrameEnd(i)' = FrameEnd(i)
  BY <1>1 DEF FrameEnd
<1>4. ASSUME NEW g \in 1 .. k + 1, NEW i \in 0 .. Min2(handlers'[g].calls, Len(calls))
      PROVE  handlers'[g].localsLen >= FrameEnd(i)
  <2>1. CASE g = k + 1
    <3>1. h.calls = Len(calls) /\ h.localsLen = localTop
      OBVIOUS
    <3>2. i \in 0 .. Len(calls)
      BY <1>2, <2>1, <3>1 DEF Min2
    <3>. QED  BY <1>2, <2>1, <3>1, <3>2 DEF FramesApart
  <2>2. CASE g # k + 1
    BY <1>2, <2>2 DEF FramesApart
  <2>. QED  BY <2>1, <2>2
<1>5. \A g \in 1 .. Len(handlers') :
         \A i \in 0 .. Min2(handlers'[g].calls, Len(calls')) :
             handlers'[g].localsLen >= FrameEnd(i)'
  BY <1>1, <1>2, <1>3, <1>4
<1>6. \A i \in 0 .. Len(calls') :
         /\ localTop' >= FrameEnd(i)'
         /\ \A j \in i + 1 .. Len(calls') : calls'[j].base >= FrameEnd(i)'
  BY <1>1, <1>3 DEF FramesApart
<1>. QED  BY <1>5, <1>6 DEF FramesApart

LEMMA PopTryFrames ==
    ASSUME TypeOK, IsChunk(chunk), FramesApart, PopTry
    PROVE  FramesApart'
<1>. PICK m \in Nat : m = Len(handlers)
  BY LenProperties DEF TypeOK
<1>. DEFINE k == IF m = 0 THEN 0 ELSE m - 1
<1>1. k \in 0 .. m /\ k \in Nat /\ (IF 1 <= m - 1 THEN m - 1 ELSE 0) = k
  OBVIOUS
<1>2. handlers' = SubSeq(handlers, 1, m - 1) /\ UNCHANGED <<chunk, calls, localTop>>
  BY DEF PopTry, loaded
<1>3. handlers \in Seq(HandlerType) /\ Len(calls) \in Nat
  BY LenProperties DEF TypeOK
<1>4. Len(handlers') = k /\ \A i \in 1 .. m - 1 : handlers'[i] = handlers[i]
  BY <1>1, <1>2, <1>3, Prefix
<1>5. \A i \in 1 .. k : handlers'[i] = handlers[i]
  BY <1>4
<1>6. \A i \in 0 .. Len(calls) : localTop' >= FrameEnd(i)
  BY <1>2 DEF FramesApart
<1>. HIDE DEF k
<1>7. Len(calls) \in 0 .. Len(calls) /\ Len(calls') = Len(calls)
      /\ \A i \in 1 .. Len(calls) : calls'[i] = calls[i]
  BY <1>2, <1>3
<1>. QED  BY <1>1, <1>2, <1>4, <1>5, <1>6, <1>7, CutFrames

LEMMA CallFrames ==
    ASSUME IInv, FramesApart, HandlersLive, Call \/ CallIndirect
    PROVE  FramesApart'
<1>1. PICK V : Closed(V) /\ Stored(V)
  BY DEF IInv, ValuesOK
<1>2. CASE Call
  <2>. DEFINE f == chunk.functions[I.fn]
  <2>1. IsInstruction(chunk, I) /\ I.op = "Call"
    BY <1>2, Fetched DEF Call, IInv
  <2>2. I.fn \in DOMAIN chunk.functions /\ I.argc \in Nat
    BY <2>1 DEF IsInstruction
  <2>3. Max2(f.size, I.argc + 8) \in Nat
    BY <2>2 DEF IInv, IsChunk, Max2
  <2>4. Enter(f.entry, Max2(f.size, I.argc + 8), Below(I.argc), Top(I.argc),
              mode = "optimized")
    BY <1>2 DEF Call
  <2>. QED  BY <2>3, <2>4, EnterFrames DEF IInv
<1>3. CASE CallIndirect
  <2>1. ASSUME NEW rest \in Seq(V),
               Raise(Text("not a function"), rest, localTop, localsLen)
        PROVE  FramesApart'
    <3>1. localTop \in Nat /\ localTop >= localTop
      BY DEF IInv, TypeOK
    <3>. QED  BY <2>1, <3>1, RaiseFrames DEF IInv
  <2>2. ASSUME NEW entry \in Entries, NEW size \in Nat, NEW rest \in Seq(V),
               NEW args \in Seq(V), Enter(entry, size, rest, args, FALSE)
        PROVE  FramesApart'
    BY <2>2, EnterFrames DEF IInv
  <2>. QED  BY <1>1, <1>3, <2>1, <2>2, CallIndirectMeans
<1>. QED  BY <1>2, <1>3

(* The instructions that move local_top_ up or not at all. *)
LEMMA OtherFrames ==
    ASSUME IInv, FramesApart,
           \/ Push \/ Dup \/ Binary \/ Input \/ PrintValue \/ LoadGlobal \/ Closure
           \/ Pop \/ LoadLocal \/ StoreLocal \/ StoreGlobal
           \/ Jump \/ JumpIfFalse \/ Branch3 \/ Stop
    PROVE  FramesApart'
<1>0. localTop \in Nat /\ LocalBase \in Nat
  BY LocalBaseType DEF IInv, TypeOK
<1>1. CASE StoreLocal
  <2>1. IsInstruction(chunk, I) /\ I.op = "StoreLocal"
    BY <1>1, Fetched DEF StoreLocal, IInv
  <2>2. I.slot \in Nat
    BY <2>1 DEF IsInstruction
  <2>3. localTop' \in Nat /\ localTop' >= localTop
    BY <1>0, <1>1, <2>2 DEF StoreLocal
  <2>. QED  BY <1>1, <2>3, QuietFrames DEF StoreLocal, loaded, IInv
<1>2. CASE ~StoreLocal
  <2>1. UNCHANGED <<loaded, control>>
    BY <1>2 DEF Push, Dup, Binary, Input, PrintValue, LoadGlobal, Closure, Yield, Pop,
       LoadLocal, StoreGlobal, Jump, JumpIfFalse, Branch3, GoTo, Stop
  <2>. QED  BY <1>0, <2>1, QuietFrames DEF loaded, control, IInv
<1>. QED  BY <1>1, <1>2

LEMMA NextFrames ==
    IInv /\ FramesApart /\ HandlersLive /\ [Next]_vars => FramesApart'
<1>. SUFFICES ASSUME IInv, FramesApart, HandlersLive, [Next]_vars
              PROVE  FramesApart'
  OBVIOUS
<1>1. localTop \in Nat /\ localsLen \in Nat
  BY DEF IInv, TypeOK
<1>2. CASE UNCHANGED vars
  BY <1>1, <1>2, QuietFrames DEF vars, loaded, control, IInv
<1>3. CASE Ended
  BY <1>2, <1>3 DEF Ended
<1>4. CASE Throw
  <2>1. Raise(Top(1)[1], Below(1), localTop, localsLen) /\ localTop >= localTop
    BY <1>1, <1>4 DEF Throw
  <2>. QED  BY <1>1, <2>1, RaiseFrames DEF IInv
<1>5. CASE DivideByZero
  <2>1. PICK V : Closed(V) /\ Stored(V)
    BY DEF IInv, ValuesOK
  <2>2. CASE outcome' = "escaped" /\ UNCHANGED <<loaded, ip, data, control, world>>
    BY <1>1, <2>2, QuietFrames DEF loaded, control, IInv
  <2>3. ASSUME NEW rest \in Seq(V),
               Raise(Text("Division by zero in integer arithmetic."), rest,
                     localTop, localsLen)
        PROVE  FramesApart'
    <3>1. localTop >= localTop
      BY <1>1
    <3>. QED  BY <1>1, <2>3, <3>1, RaiseFrames DEF IInv
  <2>. QED  BY <1>5, <2>1, <2>2, <2>3, DivideByZeroMeans
<1>6. CASE Step /\ ~Throw /\ ~DivideByZero
  BY <1>6, CallFrames, OtherFrames, RetFrames, TryFrames, PopTryFrames DEF Step, IInv
<1>. QED  BY <1>2, <1>3, <1>4, <1>5, <1>6 DEF Next

(* The assertion of vm.cpp:1692 holds for every program whose try blocks are *)
(* closed by the functions that opened them, however deep it calls, in all   *)
(* interpreter loops, provided the portable ones, which start with           *)
(* local_top_ = 64 whatever the chunk, run none whose top level is larger.   *)
THEOREM VMFramesApart ==
    ASSUME "portable" \in Modes => \A p \in Programs : ChunkOf[p].topSize <= InitialTop
    PROVE  Spec /\ []HandlersLive => []FramesApart
<1>1. Init => FramesApart
  BY InitFrames
<1>. QED  BY <1>1, InitTyped, NextTyped, NextFrames, PTL DEF Spec

-----------------------------------------------------------------------------
(* Try blocks.  Activation j, out of 0 .. m, has open[j] blocks open, and    *)
(* there are n handlers: handler i belongs to activation c[i] and was        *)
(* installed over k[i] others of the same one.  Handlers are in the order of *)
(* their activations, those of one activation are counted from 0, and an     *)
(* activation has as many as it has blocks open.                             *)

Last(c, n, i) == i < n => c[i + 1] # c[i]

Nest(c, k, n, m, o) ==
    /\ \A i \in 1 .. n : c[i] \in 0 .. m /\ k[i] \in Nat
    /\ \A i, j \in 1 .. n : i < j => c[i] <= c[j]
    /\ \A i \in 1 .. n : k[i] = IF i > 1 /\ c[i - 1] = c[i] THEN k[i - 1] + 1 ELSE 0
    /\ \A j \in 0 .. m : o[j] \in Nat
    /\ \A j \in 0 .. m : o[j] = 0 => \A i \in 1 .. n : c[i] # j
    /\ \A j \in 0 .. m : o[j] # 0 =>
          \E i \in 1 .. n : c[i] = j /\ o[j] = k[i] + 1 /\ Last(c, n, i)

LEMMA NestTry ==
    ASSUME NEW n \in Nat, NEW m \in Nat, NEW c, NEW k, NEW o, NEW c2, NEW k2, NEW o2,
           Nest(c, k, n, m, o),
           \A i \in 1 .. n : c2[i] = c[i] /\ k2[i] = k[i],
           c2[n + 1] = m, k2[n + 1] = o[m],
           \A j \in 0 .. m - 1 : o2[j] = o[j],
           o2[m] = o[m] + 1
    PROVE  Nest(c2, k2, n + 1, m, o2)
<1>1. \A i \in 1 .. n + 1 : i \in 1 .. n \/ i = n + 1
  OBVIOUS
<1>2. \A j \in 0 .. m : j \in 0 .. m - 1 \/ j = m
  OBVIOUS
<1>3. o[m] \in Nat /\ m \in 0 .. m
  BY DEF Nest
<1>4. \A i \in 1 .. n + 1 : c2[i] \in 0 .. m /\ k2[i] \in Nat
  BY <1>1, <1>3 DEF Nest
<1>5. \A i, j \in 1 .. n + 1 : i < j => c2[i] <= c2[j]
  BY <1>1, <1>4 DEF Nest
<1>6. ASSUME NEW i \in 1 .. n + 1
      PROVE  k2[i] = IF i > 1 /\ c2[i - 1] = c2[i] THEN k2[i - 1] + 1 ELSE 0
  <2>1. CASE i \in 1 .. n
    <3>1. i > 1 => i - 1 \in 1 .. n
      BY <2>1
    <3>. QED  BY <2>1, <3>1 DEF Nest
  <2>2. CASE i = n + 1 /\ n > 0 /\ c[n] = m
    <3>1. n \in 1 .. n /\ i - 1 = n /\ i > 1
      BY <2>2
    <3>2. o[m] # 0
      BY <1>3, <2>2, <3>1 DEF Nest
    <3>3. PICK l \in 1 .. n : c[l] = m /\ o[m] = k[l] + 1 /\ Last(c, n, l)
      BY <1>3, <3>2 DEF Nest
    <3>4. l = n
      <4>1. CASE l < n
        <5>1. l + 1 \in 1 .. n /\ c[l] <= c[l + 1] /\ c[l + 1] <= m /\ c[l + 1] # m
          BY <3>3, <4>1 DEF Nest, Last
        <5>2. c[l + 1] \in 0 .. m
          BY <5>1 DEF Nest
        <5>. QED  BY <3>3, <5>1, <5>2
      <4>. QED  BY <4>1
    <3>. QED  BY <2>2, <3>1, <3>3, <3>4
  <2>3. CASE i = n + 1 /\ ~(n > 0 /\ c[n] = m)
    <3>1. o[m] = 0
      <4>1. SUFFICES ASSUME o[m] # 0 PROVE FALSE
        OBVIOUS
      <4>2. PICK l \in 1 .. n : c[l] = m
        BY <1>3, <4>1 DEF Nest
      <4>3. n \in 1 .. n /\ c[n] \in 0 .. m /\ (l < n => c[l] <= c[n])
        BY <4>2 DEF Nest
      <4>. QED  BY <2>3, <4>2, <4>3
    <3>2. ~(i > 1 /\ c2[i - 1] = c2[i])
      BY <2>3
    <3>. QED  BY <2>3, <3>1, <3>2
  <2>. QED  BY <1>1, <2>1, <2>2, <2>3
<1>7. \A j \in 0 .. m : o2[j] \in Nat
  BY <1>2, <1>3 DEF Nest
<1>8. ASSUME NEW j \in 0 .. m, o2[j] = 0, NEW i \in 1 .. n + 1 PROVE c2[i] # j
  BY <1>1, <1>2, <1>3, <1>8 DEF Nest
<1>9. ASSUME NEW j \in 0 .. m, o2[j] # 0
      PROVE  \E i \in 1 .. n + 1 : c2[i] = j /\ o2[j] = k2[i] + 1 /\ Last(c2, n + 1, i)
  <2>1. CASE j = m
    <3>1. n + 1 \in 1 .. n + 1 /\ Last(c2, n + 1, n + 1)
      BY DEF Last
    <3>. QED  BY <2>1, <3>1
  <2>2. CASE j # m
    <3>1. j \in 0 .. m - 1 /\ o[j] # 0
      BY <1>9, <2>2
    <3>2. PICK i \in 1 .. n : c[i] = j /\ o[j] = k[i] + 1 /\ Last(c, n, i)
      BY <3>1 DEF Nest
    <3>3. Last(c2, n + 1, i)
      <4>1. CASE i = n
        BY <2>2, <3>2, <4>1 DEF Last
      <4>2. CASE i < n
        <5>1. i + 1 \in 1 .. n
          BY <4>2
        <5>. QED  BY <3>2, <4>2, <5>1 DEF Last
      <4>. QED  BY <4>1, <4>2
    <3>. QED  BY <3>1, <3>2, <3>3
  <2>. QED  BY <2>1, <2>2
<1>. QED  BY <1>4, <1>5, <1>6, <1>7, <1>8, <1>9 DEF Nest

(* The innermost handler is taken off, and with it every activation above its *)
(* own.                                                                       *)
LEMMA NestLanding ==
    ASSUME NEW n \in Nat \ {0}, NEW m \in Nat, NEW c, NEW k, NEW o, NEW c2, NEW k2, NEW o2,
           Nest(c, k, n, m, o),
           \A i \in 1 .. n - 1 : c2[i] = c[i] /\ k2[i] = k[i],
           \A j \in 0 .. c[n] - 1 : o2[j] = o[j],
           o2[c[n]] = k[n]
    PROVE  Nest(c2, k2, n - 1, c[n], o2)
<1>. DEFINE a == c[n]
<1>0. n \in 1 .. n /\ a \in 0 .. m /\ k[n] \in Nat
  BY DEF Nest
<1>1. \A i \in 1 .. n - 1 : i \in 1 .. n /\ i < n
  OBVIOUS
<1>2. \A j \in 0 .. a : j \in 0 .. m /\ (j \in 0 .. a - 1 \/ j = a)
  BY <1>0
<1>3. \A i \in 1 .. n - 1 : c2[i] \in 0 .. a /\ k2[i] \in Nat
  BY <1>0, <1>1 DEF Nest
<1>4. \A i, j \in 1 .. n - 1 : i < j => c2[i] <= c2[j]
  BY <1>1 DEF Nest
<1>5. ASSUME NEW i \in 1 .. n - 1
      PROVE  k2[i] = IF i > 1 /\ c2[i - 1] = c2[i] THEN k2[i - 1] + 1 ELSE 0
  <2>1. i > 1 => i - 1 \in 1 .. n - 1
    OBVIOUS
  <2>. QED  BY <1>1, <2>1 DEF Nest
<1>6. \A j \in 0 .. a : o2[j] \in Nat
  BY <1>0, <1>2 DEF Nest
<1>7. ASSUME NEW j \in 0 .. a, o2[j] = 0, NEW i \in 1 .. n - 1 PROVE c2[i] # j
  <2>1. CASE j = a
    <3>1. ~(n > 1 /\ c[n - 1] = a)
      <4>1. k[n] = 0
        BY <1>7, <2>1
      <4>2. SUFFICES ASSUME n > 1, c[n - 1] = a PROVE FALSE
        OBVIOUS
      <4>3. n - 1 \in 1 .. n /\ k[n] = k[n - 1] + 1 /\ k[n - 1] \in Nat
        BY <1>0, <4>2 DEF Nest
      <4>. QED  BY <4>1, <4>3
    <3>2. n - 1 \in 1 .. n /\ n > 1 /\ c[n - 1] \in 0 .. m /\ c[n - 1] <= a
      BY <1>0 DEF Nest
    <3>3. i < n - 1 => c[i] <= c[n - 1]
      BY <3>2 DEF Nest
    <3>4. c[i] \in 0 .. m
      BY <1>1 DEF Nest
    <3>. QED  BY <1>0, <2>1, <3>1, <3>2, <3>3, <3>4
  <2>2. CASE j # a
    BY <1>1, <1>2, <1>7, <2>2 DEF Nest
  <2>. QED  BY <2>1, <2>2
<1>8. ASSUME NEW j \in 0 .. a, o2[j] # 0
      PROVE  \E i \in 1 .. n - 1 : c2[i] = j /\ o2[j] = k2[i] + 1 /\ Last(c2, n - 1, i)
  <2>1. CASE j = a
    <3>1. n > 1 /\ c[n - 1] = a /\ k[n] = k[n - 1] + 1
      BY <1>0, <1>8, <2>1 DEF Nest
    <3>2. n - 1 \in 1 .. n - 1 /\ Last(c2, n - 1, n - 1)
      BY <3>1 DEF Last
    <3>. QED  BY <2>1, <3>1, <3>2
  <2>2. CASE j # a
    <3>1. j \in 0 .. a - 1 /\ j \in 0 .. m /\ o[j] # 0
      BY <1>2, <1>8, <2>2
    <3>2. PICK i \in 1 .. n : c[i] = j /\ o[j] = k[i] + 1 /\ Last(c, n, i)
      BY <3>1 DEF Nest
    <3>3. i \in 1 .. n - 1
      BY <2>2, <3>2
    <3>4. Last(c2, n - 1, i)
      <4>1. SUFFICES ASSUME i < n - 1 PROVE c2[i + 1] # c2[i]
        BY DEF Last
      <4>2. i + 1 \in 1 .. n - 1 /\ i < n
        BY <3>3, <4>1
      <4>. QED  BY <3>2, <3>3, <4>2 DEF Last
    <3>. QED  BY <3>1, <3>2, <3>3, <3>4
  <2>. QED  BY <2>1, <2>2
<1>. QED  BY <1>3, <1>4, <1>5, <1>6, <1>7, <1>8 DEF Nest

(* The innermost handler, when the running activation has one. *)
LEMMA NestInnermost ==
    ASSUME NEW n \in Nat, NEW m \in Nat, NEW c, NEW k, NEW o, Nest(c, k, n, m, o), o[m] # 0
    PROVE  n # 0 /\ c[n] = m /\ o[m] = k[n] + 1 /\ k[n] \in Nat
<1>1. PICK l \in 1 .. n : c[l] = m /\ o[m] = k[l] + 1 /\ Last(c, n, l)
  BY DEF Nest
<1>2. ~(l < n)
  <2>1. SUFFICES ASSUME l < n PROVE FALSE
    OBVIOUS
  <2>2. l + 1 \in 1 .. n /\ c[l + 1] # m
    BY <1>1, <2>1 DEF Last
  <2>3. c[l + 1] \in 0 .. m /\ c[l] <= c[l + 1]
    BY <2>2 DEF Nest
  <2>. QED  BY <1>1, <2>2, <2>3
<1>3. l = n /\ n \in 1 .. n
  BY <1>2
<1>. QED  BY <1>1, <1>3 DEF Nest

LEMMA NestCall ==
    ASSUME NEW n \in Nat, NEW m \in Nat, NEW c, NEW k, NEW o, NEW o2, Nest(c, k, n, m, o),
           \A j \in 0 .. m : o2[j] = o[j], o2[m + 1] = 0
    PROVE  Nest(c, k, n, m + 1, o2)
<1>1. \A j \in 0 .. m + 1 : j \in 0 .. m \/ j = m + 1
  OBVIOUS
<1>2. \A i \in 1 .. n : c[i] \in 0 .. m /\ c[i] \in 0 .. m + 1 /\ c[i] # m + 1 /\ k[i] \in Nat
  BY DEF Nest
<1>3. /\ \A j \in 0 .. m + 1 : o2[j] \in Nat
      /\ \A j \in 0 .. m + 1 : o2[j] = 0 => \A i \in 1 .. n : c[i] # j
      /\ \A j \in 0 .. m + 1 : o2[j] # 0 =>
            \E i \in 1 .. n : c[i] = j /\ o2[j] = k[i] + 1 /\ Last(c, n, i)
  BY <1>1, <1>2 DEF Nest
<1>. QED  BY <1>2, <1>3 DEF Nest

LEMMA NestReturn ==
    ASSUME NEW n \in Nat, NEW m \in Nat \ {0}, NEW c, NEW k, NEW o, NEW o2, Nest(c, k, n, m, o),
           o[m] = 0, \A j \in 0 .. m - 1 : o2[j] = o[j]
    PROVE  Nest(c, k, n, m - 1, o2)
<1>1. \A j \in 0 .. m - 1 : j \in 0 .. m
  OBVIOUS
<1>2. \A i \in 1 .. n : c[i] \in 0 .. m - 1 /\ k[i] \in Nat
  BY DEF Nest
<1>. QED  BY <1>1, <1>2 DEF Nest

-----------------------------------------------------------------------------
(* The numbers of open try blocks, which is all that HandlersLive asks of a  *)
(* labelling.                                                                *)
CountAfter(c, d, n) ==
    CASE c.code[n].op = "Try"    -> d[n] + 1
      [] c.code[n].op = "PopTry" -> d[n] - 1
      [] OTHER                   -> d[n]

Counted(c, d) ==
    /\ DOMAIN d \subseteq DOMAIN c.code /\ \A n \in DOMAIN d : d[n] \in Nat
    /\ \A e \in {1} \cup EntriesOf(c) : e \in DOMAIN d /\ d[e] = 0
    /\ \A n \in DOMAIN d :
          /\ \A m \in NextOf(c, n) : m \in DOMAIN d /\ d[m] = CountAfter(c, d, n)
          /\ c.code[n].op = "Try" => c.code[n].to \in DOMAIN d /\ d[c.code[n].to] = d[n]
          /\ c.code[n].op = "PopTry" => d[n] # 0
          /\ c.code[n].op = "Ret" => d[n] = 0

Numbers(t) == [n \in DOMAIN t |-> Len(t[n])]

LEMMA BracketedCounted ==
    ASSUME NEW c, NEW t, Bracketed(c, t)
    PROVE  Counted(c, Numbers(t))
<1>. PICK S : S = DOMAIN c.code
  OBVIOUS
<1>1. \A n \in DOMAIN t : t[n] \in Seq(S)
  BY DEF Bracketed
<1>2. \A n \in DOMAIN t : Len(t[n]) \in Nat /\ (t[n] = <<>> <=> Len(t[n]) = 0)
  BY <1>1, LenProperties, EmptySeq
<1>3. DOMAIN Numbers(t) = DOMAIN t /\ \A n \in DOMAIN t : Numbers(t)[n] = Len(t[n])
  BY DEF Numbers
<1>4. ASSUME NEW n \in DOMAIN t, NEW m \in NextOf(c, n)
      PROVE  m \in DOMAIN t /\ Len(t[m]) = CountAfter(c, Numbers(t), n)
  <2>1. m \in DOMAIN t /\ t[m] = After(c, t, n)
    BY DEF Bracketed
  <2>2. CASE c.code[n].op = "Try"
    <3>1. n \in S /\ t[m] = Append(t[n], n)
      BY <2>1, <2>2 DEF After, Bracketed
    <3>2. Len(t[m]) = Len(t[n]) + 1
      BY <1>1, <3>1, AppendProperties
    <3>. QED  BY <1>3, <2>1, <2>2, <3>2 DEF CountAfter
  <2>3. CASE c.code[n].op = "PopTry"
    <3>1. t[n] # <<>> /\ t[m] = SubSeq(t[n], 1, Len(t[n]) - 1)
      BY <2>1, <2>3 DEF After, Bracketed
    <3>2. PICK k \in Nat : k = Len(t[n]) - 1
      BY <1>2, <3>1
    <3>3. Len(t[m]) = k
      BY <1>1, <3>1, <3>2, Prefix
    <3>. QED  BY <1>3, <2>1, <2>3, <3>2, <3>3 DEF CountAfter
  <2>4. CASE c.code[n].op \notin {"Try", "PopTry"}
    BY <1>3, <2>1, <2>4 DEF CountAfter, After
  <2>. QED  BY <2>2, <2>3, <2>4
<1>. QED  BY <1>2, <1>3, <1>4 DEF Bracketed, Counted

-----------------------------------------------------------------------------
(* Where each activation goes on: the last at ip, the others after the call  *)
(* they made.                                                                *)
Resume(j) == IF j = Len(calls) THEN ip ELSE calls[j + 1].ret

Levels   == [i \in 1 .. Len(handlers) |-> handlers[i].calls]
Marks(d) == [i \in 1 .. Len(handlers) |-> d[handlers[i].catchIp]]
Open(d)  == [j \in 0 .. Len(calls) |-> d[Resume(j)]]

(* The handlers are those of the blocks that the code says are open. *)
Nested(d) ==
    /\ Counted(chunk, d)
    /\ \A i \in 1 .. Len(handlers) : handlers[i].catchIp \in DOMAIN d
    /\ \A j \in 0 .. Len(calls) : Resume(j) \in DOMAIN d
    /\ Nest(Levels, Marks(d), Len(handlers), Len(calls), Open(d))

LEMMA Lengths ==
    ASSUME TypeOK
    PROVE  /\ Len(calls) \in Nat /\ calls \in Seq(FrameType)
           /\ Len(handlers) \in Nat /\ handlers \in Seq(HandlerType)
BY LenProperties DEF TypeOK

LEMMA NestedLive ==
    ASSUME TypeOK, NEW d, Nested(d)
    PROVE  HandlersLive
<1>. PICK n \in Nat : n = Len(handlers)
  BY Lengths
<1>. PICK m \in Nat : m = Len(calls)
  BY Lengths
<1>1. Nest(Levels, Marks(d), n, m, Open(d))
  BY DEF Nested
<1>2. \A i \in 1 .. n : Levels[i] = handlers[i].calls
  BY DEF Levels
<1>3. \A i \in 1 .. n : handlers[i].calls <= m
  BY <1>1, <1>2 DEF Nest
<1>4. ASSUME NEW i \in 1 .. n - 1 PROVE handlers[i].calls <= handlers[i + 1].calls
  <2>1. i \in 1 .. n /\ i + 1 \in 1 .. n /\ i < i + 1
    OBVIOUS
  <2>2. Levels[i] <= Levels[i + 1]
    BY <1>1, <2>1 DEF Nest
  <2>. QED  BY <1>2, <2>1, <2>2
<1>. QED  BY <1>3, <1>4 DEF HandlersLive

(* The bookkeeping stays, and ip goes on with as many blocks open. *)
LEMMA QuietNested ==
    ASSUME TypeOK, NEW d, Nested(d), UNCHANGED <<chunk, calls, handlers>>,
           ip' \in DOMAIN d, d[ip'] = d[ip]
    PROVE  Nested(d)'
<1>1. \A j \in 0 .. Len(calls) : Resume(j)' \in DOMAIN d /\ d[Resume(j)'] = d[Resume(j)]
  BY DEF Resume, Nested
<1>2. Levels' = Levels /\ Marks(d)' = Marks(d) /\ Open(d)' = Open(d)
  BY <1>1 DEF Levels, Marks, Open
<1>. QED  BY <1>1, <1>2 DEF Nested

(* An instruction reached, and one that control may go to next. *)
LEMMA Reached ==
    ASSUME TypeOK, NEW d, Nested(d)
    PROVE  /\ ip \in DOMAIN d /\ d[ip] = Open(d)[Len(calls)] /\ d[ip] \in Nat
           /\ \A m \in NextOf(chunk, ip) : m \in DOMAIN d /\ d[m] = CountAfter(chunk, d, ip)
<1>1. Len(calls) \in 0 .. Len(calls) /\ Resume(Len(calls)) = ip
  BY Lengths DEF Resume
<1>. QED  BY <1>1 DEF Nested, Counted, Open

LEMMA AdvanceNested ==
    ASSUME TypeOK, NEW d, Nested(d), UNCHANGED <<chunk, calls, handlers>>,
           I.op \notin {"Try", "PopTry"}, ip' \in NextOf(chunk, ip)
    PROVE  Nested(d)'
<1>1. ip' \in DOMAIN d /\ d[ip'] = CountAfter(chunk, d, ip) /\ CountAfter(chunk, d, ip) = d[ip]
  BY Reached DEF CountAfter, I
<1>. QED  BY <1>1, QuietNested

(* Landing in the innermost handler. *)
LEMMA LandNested ==
    ASSUME TypeOK, NEW d, Nested(d), UNCHANGED chunk, handlers # <<>>,
           handlers' = SubSeq(handlers, 1, Len(handlers) - 1),
           Len(calls') = handlers[Len(handlers)].calls,
           \A i \in 1 .. Len(calls') : calls'[i] = calls[i],
           ip' \in DOMAIN d, d[ip'] = d[handlers[Len(handlers)].catchIp]
    PROVE  Nested(d)'
<1>. DEFINE h == handlers[Len(handlers)]
<1>. PICK n \in Nat \ {0} : n = Len(handlers)
  BY EmptySeq, Lengths
<1>. PICK m \in Nat : m = Len(calls)
  BY Lengths
<1>. PICK a : a = h.calls
  OBVIOUS
<1>1. Nest(Levels, Marks(d), n, m, Open(d)) /\ Levels[n] = a /\ Marks(d)[n] = d[h.catchIp]
  BY DEF Nested, Levels, Marks
<1>2. a \in 0 .. m /\ Len(calls') = a
  BY <1>1 DEF Nest
<1>3. Len(handlers') = n - 1 /\ \A i \in 1 .. n - 1 : handlers'[i] = handlers[i]
  <2>. DEFINE k == n - 1
  <2>1. k \in Nat /\ k <= Len(handlers) /\ handlers' = SubSeq(handlers, 1, k)
    OBVIOUS
  <2>. HIDE DEF k
  <2>2. Len(handlers') = k /\ \A i \in 1 .. k : handlers'[i] = handlers[i]
    BY <2>1, Lengths, Prefix
  <2>. QED  BY <2>2 DEF k
<1>4. \A j \in 0 .. a - 1 : Resume(j)' = Resume(j) /\ j \in 0 .. m
  <2>1. \A j \in 0 .. a - 1 : j \in 0 .. m /\ j + 1 \in 1 .. a /\ j # a /\ j # m
    BY <1>2
  <2>. QED  BY <1>2, <2>1 DEF Resume
<1>5. Resume(a)' = ip' /\ \A j \in 0 .. a : j \in 0 .. a - 1 \/ j = a
  BY <1>2 DEF Resume
<1>6. \A i \in 1 .. n - 1 : Levels'[i] = Levels[i] /\ Marks(d)'[i] = Marks(d)[i]
  BY <1>3 DEF Levels, Marks
<1>7. /\ \A j \in 0 .. Levels[n] - 1 : Open(d)'[j] = Open(d)[j]
      /\ Open(d)'[Levels[n]] = Marks(d)[n]
  <2>1. a \in 0 .. a /\ \A j \in 0 .. a - 1 : j \in 0 .. a
    BY <1>2
  <2>. QED  BY <1>1, <1>2, <1>4, <1>5, <2>1 DEF Open
<1>8. Nest(Levels', Marks(d)', n - 1, Levels[n], Open(d)')
  BY <1>1, <1>6, <1>7, NestLanding
<1>9. \A i \in 1 .. Len(handlers') : handlers'[i].catchIp \in DOMAIN d
  BY <1>3 DEF Nested
<1>10. \A j \in 0 .. Len(calls') : Resume(j)' \in DOMAIN d
  BY <1>2, <1>4, <1>5 DEF Nested
<1>. QED  BY <1>1, <1>3, <1>8, <1>9, <1>10 DEF Nested

LEMMA RaiseNested ==
    ASSUME TypeOK, NEW d, Nested(d), NEW m, NEW rest, NEW top, NEW len,
           Raise(m, rest, top, len)
    PROVE  Nested(d)'
<1>1. CASE handlers = <<>>
  <2>1. UNCHANGED <<chunk, ip, calls, handlers>>
    BY <1>1 DEF Raise, loaded
  <2>. QED  BY <2>1, Reached, QuietNested
<1>2. CASE handlers # <<>>
  <2>. DEFINE h == handlers[Len(handlers)]
  <2>1. Len(handlers) \in 1 .. Len(handlers) /\ h.calls \in Nat
    BY <1>2, LastHandler DEF HandlerType
  <2>2. h.calls <= Len(calls) /\ h.catchIp \in DOMAIN d
    BY <2>1, NestedLive DEF HandlersLive, Nested
  <2>3. calls' = Truncate(calls, h.calls)
    BY <1>2 DEF Raise
  <2>4. Len(calls') = h.calls /\ \A i \in 1 .. Len(calls') : calls'[i] = calls[i]
    BY <2>1, <2>2, <2>3, Lengths, Truncated DEF Min2
  <2>5. UNCHANGED chunk /\ ip' = h.catchIp
        /\ handlers' = SubSeq(handlers, 1, Len(handlers) - 1)
    BY <1>2 DEF Raise, loaded
  <2>. QED  BY <1>2, <2>2, <2>4, <2>5, LandNested
<1>. QED  BY <1>1, <1>2

(* A function begins with no block open. *)
LEMMA EnterNested ==
    ASSUME TypeOK, NEW d, Nested(d), I.op \in {"Call", "CallIndirect"},
           NEW entry \in Entries, NEW size, NEW rest, NEW args,
           NEW inlined \in BOOLEAN, Enter(entry, size, rest, args, inlined)
    PROVE  Nested(d)'
<1>. PICK m \in Nat : m = Len(calls)
  BY Lengths
<1>1. CASE m < MaxCallDepth
  <2>. PICK frame : frame = [ret |-> ip + 1, base |-> localTop,
                             depth |-> Len(rest), size |-> size]
    OBVIOUS
  <2>1. calls' = Append(calls, frame) /\ ip' = entry /\ UNCHANGED <<chunk, handlers>>
    BY <1>1 DEF Enter, loaded
  <2>2. Len(calls') = m + 1 /\ calls'[m + 1] = frame
        /\ \A i \in 1 .. m : calls'[i] = calls[i]
    <3>1. calls \in Seq(FrameType \cup {frame})
      BY Lengths, SeqMonotonic
    <3>. QED  BY <2>1, <3>1, AppendProperties
  <2>3. ip + 1 \in DOMAIN d /\ d[ip + 1] = d[ip]
    <3>1. NextOf(chunk, ip) = {ip + 1} /\ CountAfter(chunk, d, ip) = d[ip]
      BY DEF NextOf, CountAfter, I
    <3>. QED  BY <3>1, Reached
  <2>4. entry \in DOMAIN d /\ d[entry] = 0
    BY DEF Nested, Counted, Entries
  <2>5. \A j \in 0 .. m - 1 : Resume(j)' = Resume(j)
    <3>1. \A j \in 0 .. m - 1 : j + 1 \in 1 .. m /\ j # m + 1 /\ j # m
      OBVIOUS
    <3>. QED  BY <2>2, <3>1 DEF Resume
  <2>6. Resume(m)' = ip + 1 /\ Resume(m) = ip /\ Resume(m + 1)' = entry
    BY <2>1, <2>2 DEF Resume
  <2>7. \A j \in 0 .. m : Resume(j)' \in DOMAIN d /\ d[Resume(j)'] = d[Resume(j)]
    <3>1. \A j \in 0 .. m : j \in 0 .. m - 1 \/ j = m
      OBVIOUS
    <3>. QED  BY <2>3, <2>5, <2>6, <3>1 DEF Nested
  <2>8. Open(d)'[m + 1] = 0 /\ \A j \in 0 .. m : Open(d)'[j] = Open(d)[j]
    BY <2>2, <2>4, <2>6, <2>7 DEF Open
  <2>9. Levels' = Levels /\ Marks(d)' = Marks(d)
    BY <2>1 DEF Levels, Marks
  <2>10. Nest(Levels', Marks(d)', Len(handlers), m + 1, Open(d)')
    BY <2>8, <2>9, Lengths, NestCall DEF Nested
  <2>11. \A j \in 0 .. m + 1 : Resume(j)' \in DOMAIN d
    <3>1. \A j \in 0 .. m + 1 : j \in 0 .. m \/ j = m + 1
      OBVIOUS
    <3>. QED  BY <2>4, <2>6, <2>7, <3>1
  <2>. QED  BY <2>1, <2>2, <2>10, <2>11 DEF Nested
<1>2. CASE ~(m < MaxCallDepth) /\ inlined
  <2>1. UNCHANGED <<chunk, ip, calls, handlers>>
    BY <1>2 DEF Enter, loaded, control
  <2>. QED  BY <2>1, Reached, QuietNested
<1>3. CASE ~(m < MaxCallDepth) /\ ~inlined
  <2>1. PICK top, len : Raise(Text("CallStack depth limit exceeded"), rest, top, len)
    BY <1>3 DEF Enter
  <2>. QED  BY <2>1, RaiseNested
<1>. QED  BY <1>1, <1>2, <1>3

LEMMA CallNested ==
    ASSUME IInv, NEW d, Nested(d), Call \/ CallIndirect
    PROVE  Nested(d)'
<1>1. PICK V : Closed(V) /\ Stored(V)
  BY DEF IInv, ValuesOK
<1>2. CASE Call
  <2>. DEFINE f == chunk.functions[I.fn]
  <2>1. IsInstruction(chunk, I) /\ I.op = "Call"
    BY <1>2, Fetched DEF Call, IInv
  <2>2. I.fn \in DOMAIN chunk.functions
    BY <2>1 DEF IsInstruction
  <2>3. f.entry \in Entries
    BY <2>2 DEF Entries, EntriesOf
  <2>4. Enter(f.entry, Max2(f.size, I.argc + 8), Below(I.argc), Top(I.argc),
              mode = "optimized")
    BY <1>2 DEF Call
  <2>. QED  BY <2>1, <2>3, <2>4, EnterNested DEF IInv
<1>3. CASE CallIndirect
  <2>0. I.op = "CallIndirect"
    BY <1>3 DEF CallIndirect, At
  <2>1. ASSUME NEW rest \in Seq(V),
               Raise(Text("not a function"), rest, localTop, localsLen)
        PROVE  Nested(d)'
    BY <2>1, RaiseNested DEF IInv
  <2>2. ASSUME NEW entry \in Entries, NEW size \in Nat, NEW rest \in Seq(V),
               NEW args \in Seq(V), Enter(entry, size, rest, args, FALSE)
        PROVE  Nested(d)'
    BY <2>0, <2>2, EnterNested DEF IInv
  <2>. QED  BY <1>1, <1>3, <2>1, <2>2, CallIndirectMeans
<1>. QED  BY <1>2, <1>3

(* A function returns with no block open, so none of the handlers is its own.*)
LEMMA RetNested ==
    ASSUME TypeOK, NEW d, Nested(d), Ret
    PROVE  Nested(d)'
<1>. PICK m \in Nat \ {0} : m = Len(calls)
  BY EmptySeq, Lengths DEF Ret
<1>. DEFINE n == m - 1
<1>1. n \in Nat /\ n <= Len(calls) /\ calls' = SubSeq(calls, 1, n)
      /\ ip' = calls[m].ret /\ UNCHANGED <<chunk, handlers>>
  BY DEF Ret, loaded
<1>. HIDE DEF n
<1>2. Len(calls') = n /\ \A i \in 1 .. n : calls'[i] = calls[i]
  BY <1>1, Lengths, Prefix
<1>3. \A j \in 0 .. n : Resume(j)' = Resume(j)
  <2>1. \A j \in 0 .. n : (j = n \/ j + 1 \in 1 .. n) /\ j # m
    BY DEF n
  <2>. QED  BY <1>1, <1>2, <2>1 DEF Resume, n
<1>4. \A j \in 0 .. n : j \in 0 .. m
  BY DEF n
<1>5. Open(d)[m] = 0
  <2>1. I.op = "Ret"
    BY DEF Ret, At
  <2>. QED  BY <2>1, Reached DEF Nested, Counted, I
<1>6. Levels' = Levels /\ Marks(d)' = Marks(d)
      /\ \A j \in 0 .. n : Open(d)'[j] = Open(d)[j]
  BY <1>1, <1>2, <1>3, <1>4 DEF Levels, Marks, Open
<1>7. Nest(Levels', Marks(d)', Len(handlers), n, Open(d)')
  BY <1>5, <1>6, Lengths, NestReturn DEF Nested, n
<1>. QED  BY <1>1, <1>2, <1>3, <1>4, <1>7 DEF Nested

LEMMA TryNested ==
    ASSUME TypeOK, NEW d, Nested(d), Try
    PROVE  Nested(d)'
<1>. PICK m \in Nat : m = Len(calls)
  BY Lengths
<1>. PICK n \in Nat : n = Len(handlers)
  BY Lengths
<1>. PICK h : h = [catchIp |-> I.to, depth |-> Len(operands),
                   localsLen |-> localTop, calls |-> Len(calls)]
  OBVIOUS
<1>1. handlers' = Append(handlers, h) /\ ip' = ip + 1 /\ UNCHANGED <<chunk, calls>>
      /\ I.op = "Try"
  BY DEF Try, loaded, At
<1>2. Len(handlers') = n + 1 /\ handlers'[n + 1] = h
      /\ \A i \in 1 .. n : handlers'[i] = handlers[i]
  <2>1. handlers \in Seq(HandlerType \cup {h})
    BY Lengths, SeqMonotonic
  <2>. QED  BY <1>1, <2>1, AppendProperties
<1>3. ip + 1 \in DOMAIN d /\ d[ip + 1] = d[ip] + 1
  <2>1. NextOf(chunk, ip) = {ip + 1} /\ CountAfter(chunk, d, ip) = d[ip] + 1
    BY <1>1 DEF NextOf, CountAfter, I
  <2>. QED  BY <2>1, Reached
<1>4. I.to \in DOMAIN d /\ d[I.to] = d[ip]
  BY <1>1, Reached DEF Nested, Counted, I
<1>5. \A j \in 0 .. m - 1 : Resume(j)' = Resume(j) /\ j \in 0 .. m
  BY <1>1 DEF Resume
<1>6. Resume(m)' = ip + 1
  BY <1>1 DEF Resume
<1>7. \A i \in 1 .. n : Levels'[i] = Levels[i] /\ Marks(d)'[i] = Marks(d)[i]
  BY <1>2 DEF Levels, Marks
<1>8. Levels'[n + 1] = m /\ Marks(d)'[n + 1] = Open(d)[m]
  BY <1>2, <1>4, Reached DEF Levels, Marks
<1>9. /\ \A j \in 0 .. m - 1 : Open(d)'[j] = Open(d)[j]
      /\ Open(d)'[m] = Open(d)[m] + 1
  BY <1>1, <1>3, <1>5, <1>6, Reached DEF Open
<1>10. Nest(Levels', Marks(d)', n + 1, m, Open(d)')
  <2>1. Nest(Levels, Marks(d), n, m, Open(d))
    BY DEF Nested
  <2>2. PICK c, k, o, c2, k2, o2 : /\ c = Levels /\ k = Marks(d) /\ o = Open(d)
                                   /\ c2 = Levels' /\ k2 = Marks(d)' /\ o2 = Open(d)'
    OBVIOUS
  <2>3. /\ Nest(c, k, n, m, o)
        /\ \A i \in 1 .. n : c2[i] = c[i] /\ k2[i] = k[i]
        /\ c2[n + 1] = m /\ k2[n + 1] = o[m]
        /\ \A j \in 0 .. m - 1 : o2[j] = o[j]
        /\ o2[m] = o[m] + 1
    BY <1>7, <1>8, <1>9, <2>1, <2>2
  <2>4. Nest(c2, k2, n + 1, m, o2)
    BY <2>3, NestTry
  <2>. QED  BY <2>2, <2>4
<1>11. \A j \in 0 .. m : Resume(j)' \in DOMAIN d
  <2>1. \A j \in 0 .. m : j \in 0 .. m - 1 \/ j = m
    OBVIOUS
  <2>. QED  BY <1>3, <1>5, <1>6, <2>1 DEF Nested
<1>12. \A i \in 1 .. n + 1 : handlers'[i].catchIp \in DOMAIN d
  <2>1. \A i \in 1 .. n + 1 : i \in 1 .. n \/ i = n + 1
    OBVIOUS
  <2>. QED  BY <1>2, <1>4, <2>1 DEF Nested
<1>. QED  BY <1>1, <1>2, <1>10, <1>11, <1>12 DEF Nested

(* The innermost handler is that of the innermost block of the running       *)
(* function, which the code says is open.                                    *)
LEMMA PopTryNested ==
    ASSUME TypeOK, NEW d, Nested(d), PopTry
    PROVE  Nested(d)'
<1>. DEFINE n == Len(handlers)
            m == Len(calls)
<1>1. handlers' = SubSeq(handlers, 1, n - 1) /\ ip' = ip + 1 /\ UNCHANGED <<chunk, calls>>
      /\ I.op = "PopTry"
  BY DEF PopTry, loaded, At
<1>2. d[ip] # 0 /\ Open(d)[m] # 0 /\ d[ip] = Open(d)[m]
  BY <1>1, Reached DEF Nested, Counted, I
<1>3. n # 0 /\ Levels[n] = m /\ Open(d)[m] = Marks(d)[n] + 1 /\ Marks(d)[n] \in Nat
  BY <1>2, Lengths, NestInnermost DEF Nested
<1>4. handlers # <<>> /\ n \in 1 .. n
  BY <1>3, EmptySeq, Lengths
<1>5. handlers[n].calls = m /\ d[handlers[n].catchIp] = Marks(d)[n]
  BY <1>3, <1>4 DEF Levels, Marks
<1>6. ip + 1 \in DOMAIN d /\ d[ip + 1] = d[ip] - 1
  <2>1. NextOf(chunk, ip) = {ip + 1} /\ CountAfter(chunk, d, ip) = d[ip] - 1
    BY <1>1 DEF NextOf, CountAfter, I
  <2>. QED  BY <2>1, Reached
<1>7. d[ip'] = d[handlers[n].catchIp]
  BY <1>1, <1>2, <1>3, <1>5, <1>6
<1>. QED  BY <1>1, <1>4, <1>5, <1>6, <1>7, LandNested

(* The instructions that leave calls and handlers alone. *)
LEMMA OtherNested ==
    ASSUME TypeOK, NEW d, Nested(d),
           \/ Push \/ Dup \/ Binary \/ Input \/ PrintValue \/ LoadGlobal \/ Closure
           \/ Pop \/ LoadLocal \/ StoreLocal \/ StoreGlobal
           \/ Jump \/ JumpIfFalse \/ Branch3 \/ Stop
    PROVE  Nested(d)'
<1>1. CASE Stop
  <2>1. UNCHANGED <<chunk, ip, calls, handlers>>
    BY <1>1 DEF Stop, loaded, control
  <2>. QED  BY <2>1, Reached, QuietNested
<1>2. CASE Jump \/ JumpIfFalse \/ Branch3
  <2>1. UNCHANGED <<chunk, calls, handlers>>
    BY <1>2 DEF Jump, JumpIfFalse, Branch3, GoTo, loaded, control
  <2>2. ip' \in NextOf(chunk, ip) /\ I.op \notin {"Try", "PopTry"}
    BY <1>2 DEF Jump, JumpIfFalse, Branch3, GoTo, At, NextOf, I
  <2>. QED  BY <2>1, <2>2, AdvanceNested
<1>3. CASE ~Stop /\ ~(Jump \/ JumpIfFalse \/ Branch3)
  <2>1. UNCHANGED <<chunk, calls, handlers>> /\ ip' = ip + 1
    BY <1>3 DEF Push, Dup, Binary, Input, PrintValue, LoadGlobal, Closure, Yield, Pop,
       LoadLocal, StoreLocal, StoreGlobal, loaded, control
  <2>2. I.op \in {"Push", "Dup", "Binary", "Input", "Print", "LoadGlobal", "Closure",
                  "Pop", "LoadLocal", "StoreLocal", "StoreGlobal"}
    BY <1>3 DEF Push, Dup, Binary, Input, PrintValue, LoadGlobal, Closure, Pop,
       LoadLocal, StoreLocal, StoreGlobal, At
  <2>3. NextOf(chunk, ip) = {ip + 1} /\ I.op \notin {"Try", "PopTry"}
    BY <2>2 DEF NextOf, I
  <2>. QED  BY <2>1, <2>3, AdvanceNested
<1>. QED  BY <1>1, <1>2, <1>3

LEMMA NextNested ==
    ASSUME IInv, NEW d, Nested(d), [Next]_vars
    PROVE  Nested(d)'
<1>1. TypeOK
  BY DEF IInv
<1>2. CASE UNCHANGED vars
  BY <1>1, <1>2, Reached, QuietNested DEF vars, loaded, control
<1>3. CASE Ended
  BY <1>2, <1>3 DEF Ended
<1>4. CASE Throw
  BY <1>1, <1>4, RaiseNested DEF Throw
<1>5. CASE DivideByZero
  <2>1. PICK V : Closed(V) /\ Stored(V)
    BY DEF IInv, ValuesOK
  <2>2. CASE UNCHANGED <<loaded, ip, data, control, world>>
    BY <1>1, <2>2, Reached, QuietNested DEF loaded, control
  <2>3. ASSUME NEW rest \in Seq(V),
               Raise(Text("Division by zero in integer arithmetic."), rest,
                     localTop, localsLen)
        PROVE  Nested(d)'
    BY <1>1, <2>3, RaiseNested
  <2>. QED  BY <1>5, <2>1, <2>2, <2>3, DivideByZeroMeans
<1>6. CASE Step /\ ~Throw /\ ~DivideByZero
  BY <1>1, <1>6, CallNested, OtherNested, RetNested, TryNested, PopTryNested DEF Step
<1>. QED  BY <1>2, <1>3, <1>4, <1>5, <1>6 DEF Next

LEMMA InitNested ==
    ASSUME Init, NEW d, Counted(chunk, d)
    PROVE  Nested(d)
<1>1. Len(calls) = 0 /\ Len(handlers) = 0 /\ Resume(0) = 1
  BY EmptySeq DEF Init, Resume
<1>2. 1 \in DOMAIN d /\ d[1] = 0
  BY DEF Counted
<1>3. Open(d)[0] = 0
  BY <1>1, <1>2 DEF Open
<1>4. Nest(Levels, Marks(d), 0, 0, Open(d))
  BY <1>3 DEF Nest
<1>. QED  BY <1>1, <1>2, <1>4 DEF Nested

-----------------------------------------------------------------------------
(* The handlers are not only as many as the code says, they are those of the *)
(* blocks it names.  A handler belongs to the block open in its activation   *)
(* just above those open at its catch, and in one activation later handlers  *)
(* belong to inner blocks.                                                   *)
OpenedBy(t, i) ==
    LET h     == handlers[i]
        outer == t[h.catchIp]
        open  == t[Resume(h.calls)]
    IN  /\ Len(outer) < Len(open)
        /\ \A p \in 1 .. Len(outer) : outer[p] = open[p]
        /\ chunk.code[open[Len(outer) + 1]].to = h.catchIp

Inwards(t) ==
    \A i, j \in 1 .. Len(handlers) :
        i < j /\ handlers[i].calls = handlers[j].calls
            => Len(t[handlers[i].catchIp]) < Len(t[handlers[j].catchIp])

Matched(t) ==
    /\ Bracketed(chunk, t)
    /\ Nested(Numbers(t))
    /\ \A i \in 1 .. Len(handlers) : OpenedBy(t, i)
    /\ Inwards(t)

(* What a handler and the code give together: an activation that is still    *)
(* there, and sequences of instructions at its catch and where it goes on.   *)
LEMMA Labelled ==
    ASSUME TypeOK, NEW t, Matched(t), NEW i \in 1 .. Len(handlers)
    PROVE  /\ handlers[i].calls \in 0 .. Len(calls)
           /\ handlers[i].catchIp \in DOMAIN t
           /\ Len(t[handlers[i].catchIp]) \in Nat
<1>. PICK S : S = DOMAIN chunk.code
  OBVIOUS
<1>1. Nest(Levels, Marks(Numbers(t)), Len(handlers), Len(calls), Open(Numbers(t)))
      /\ Levels[i] = handlers[i].calls
  BY DEF Matched, Nested, Levels
<1>2. handlers[i].catchIp \in DOMAIN t
  BY DEF Matched, Nested, Numbers
<1>3. t[handlers[i].catchIp] \in Seq(S)
  BY <1>2 DEF Matched, Bracketed
<1>. QED  BY <1>1, <1>2, <1>3, LenProperties DEF Nest

LEMMA OpenHere ==
    ASSUME TypeOK, NEW t, Matched(t)
    PROVE  /\ ip \in DOMAIN t /\ ip \in DOMAIN chunk.code
           /\ t[ip] \in Seq(DOMAIN chunk.code) /\ Len(t[ip]) \in Nat
           /\ Resume(Len(calls)) = ip
<1>1. ip \in DOMAIN Numbers(t)
  BY Reached DEF Matched
<1>2. ip \in DOMAIN t
  BY <1>1 DEF Numbers
<1>3. ip \in DOMAIN chunk.code /\ t[ip] \in Seq(DOMAIN chunk.code)
  BY <1>2 DEF Matched, Bracketed
<1>. QED  BY <1>2, <1>3, LenProperties DEF Resume

(* A handler stays that of its block while no more than inner blocks of its  *)
(* activation come and go.                                                   *)
LEMMA OpenedKept ==
    ASSUME NEW t, NEW i, OpenedBy(t, i), handlers'[i] = handlers[i], UNCHANGED chunk,
           NEW j, j = handlers[i].calls,
           NEW k \in Nat, k = Len(t[handlers[i].catchIp]), k < Len(t[Resume(j)']),
           \A p \in 1 .. k + 1 : t[Resume(j)'][p] = t[Resume(j)][p]
    PROVE  OpenedBy(t, i)'
<1>1. handlers'[i].calls = j /\ handlers'[i].catchIp = handlers[i].catchIp
  OBVIOUS
<1>2. k + 1 \in 1 .. k + 1 /\ \A p \in 1 .. k : p \in 1 .. k + 1
  OBVIOUS
<1>. QED  BY <1>1, <1>2 DEF OpenedBy

(* No handler is installed or removed, and the activations that have some go *)
(* on with the same blocks open.                                             *)
LEMMA MatchedStays ==
    ASSUME TypeOK, NEW t, Matched(t), UNCHANGED <<chunk, handlers>>, Nested(Numbers(t))',
           \A i \in 1 .. Len(handlers) :
              t[Resume(handlers[i].calls)'] = t[Resume(handlers[i].calls)]
    PROVE  Matched(t)'
<1>1. ASSUME NEW i \in 1 .. Len(handlers) PROVE OpenedBy(t, i)'
  <2>. PICK j : j = handlers[i].calls
    OBVIOUS
  <2>. PICK k \in Nat : k = Len(t[handlers[i].catchIp])
    BY Labelled
  <2>1. OpenedBy(t, i) /\ t[Resume(j)'] = t[Resume(j)]
    BY DEF Matched
  <2>2. k < Len(t[Resume(j)])
    BY <2>1 DEF OpenedBy
  <2>. QED  BY <2>1, <2>2, OpenedKept
<1>2. Inwards(t)'
  BY DEF Matched, Inwards
<1>. QED  BY <1>1, <1>2 DEF Matched

(* The innermost handler is gone, and with it the activations above its own, *)
(* which goes on with the blocks open that were outside the handler's.       *)
LEMMA LandMatched ==
    ASSUME TypeOK, NEW t, Matched(t), UNCHANGED chunk, Nested(Numbers(t))', handlers # <<>>,
           handlers' = SubSeq(handlers, 1, Len(handlers) - 1),
           NEW h, h = handlers[Len(handlers)],
           Len(calls') = h.calls, \A i \in 1 .. Len(calls') : calls'[i] = calls[i],
           Len(t[ip']) = Len(t[h.catchIp]),
           \A p \in 1 .. Len(t[ip']) : t[ip'][p] = t[Resume(h.calls)][p]
    PROVE  Matched(t)'
<1>. PICK n \in Nat \ {0} : n = Len(handlers)
  BY EmptySeq, Lengths
<1>. PICK m \in Nat : m = Len(calls)
  BY Lengths
<1>. PICK a : a = h.calls
  OBVIOUS
<1>1. n \in 1 .. n /\ a \in 0 .. m /\ Len(calls') = a /\ Len(t[h.catchIp]) \in Nat
  BY Labelled
<1>2. Len(handlers') = n - 1 /\ \A i \in 1 .. n - 1 : handlers'[i] = handlers[i]
  <2>0. \A x \in Nat \ {0} : x - 1 \in Nat /\ x - 1 <= x
    OBVIOUS
  <2>1. PICK k \in Nat : k = n - 1 /\ k <= n
    BY <2>0
  <2>2. k <= Len(handlers) /\ handlers' = SubSeq(handlers, 1, k)
    BY <2>1
  <2>. QED  BY <2>1, <2>2, Lengths, Prefix
<1>3. \A i \in 1 .. n - 1 : i \in 1 .. n /\ i < n
  OBVIOUS
<1>4. ASSUME NEW i \in 1 .. n - 1 PROVE OpenedBy(t, i)'
  <2>. PICK j : j = handlers[i].calls
    OBVIOUS
  <2>. PICK k \in Nat : k = Len(t[handlers[i].catchIp])
    BY <1>3, Labelled
  <2>1. OpenedBy(t, i) /\ handlers'[i] = handlers[i]
    BY <1>2, <1>3 DEF Matched
  <2>2. k < Len(t[Resume(j)])
    BY <2>1 DEF OpenedBy
  <2>3. j \in 0 .. a
    <3>1. HandlersLive
      BY NestedLive DEF Matched
    <3>2. Nest(Levels, Marks(Numbers(t)), n, m, Open(Numbers(t)))
          /\ Levels[i] = j /\ Levels[n] = a
      BY <1>1, <1>3 DEF Matched, Nested, Levels
    <3>. QED  BY <1>1, <1>3, <3>2 DEF Nest
  <2>4. CASE j = a
    <3>1. Resume(j)' = ip'
      BY <1>1, <2>4 DEF Resume
    <3>2. k < Len(t[h.catchIp])
      <4>1. i \in 1 .. n /\ i < n /\ handlers[i].calls = handlers[n].calls
        BY <1>3, <2>4
      <4>2. Inwards(t)
        BY DEF Matched
      <4>. QED  BY <1>1, <4>1, <4>2 DEF Inwards
    <3>3. k < Len(t[ip']) /\ \A p \in 1 .. k + 1 : p \in 1 .. Len(t[ip'])
      <4>1. \A l \in Nat : k < l => \A p \in 1 .. k + 1 : p \in 1 .. l
        OBVIOUS
      <4>. QED  BY <1>1, <3>2, <4>1
    <3>4. \A p \in 1 .. k + 1 : t[Resume(j)'][p] = t[Resume(j)][p]
      <4>1. \A p \in 1 .. Len(t[ip']) : t[ip'][p] = t[Resume(a)][p]
        OBVIOUS
      <4>2. PICK here, there : here = t[ip'] /\ there = t[Resume(a)]
        OBVIOUS
      <4>3. \A p \in 1 .. k + 1 : here[p] = there[p]
        BY <3>3, <4>1, <4>2
      <4>. QED  BY <2>4, <3>1, <4>2, <4>3
    <3>5. k < Len(t[Resume(j)'])
      <4>1. t[Resume(j)'] = t[ip']
        BY <3>1
      <4>. QED  BY <3>3, <4>1
    <3>6. /\ OpenedBy(t, i) /\ handlers'[i] = handlers[i] /\ UNCHANGED chunk
          /\ j = handlers[i].calls /\ k \in Nat /\ k = Len(t[handlers[i].catchIp])
      BY <2>1
    <3>. QED  BY ONLY <3>4, <3>5, <3>6, OpenedKept
  <2>5. CASE j # a
    <3>1. j + 1 \in 1 .. a /\ j # m /\ j # a
      BY <1>1, <2>3, <2>5
    <3>2. Resume(j)' = Resume(j)
      BY <1>1, <3>1 DEF Resume
    <3>. QED  BY <2>1, <2>2, <3>2, OpenedKept
  <2>. QED  BY <2>4, <2>5
<1>5. Inwards(t)'
  BY <1>2, <1>3 DEF Matched, Inwards
<1>. QED  BY <1>2, <1>4, <1>5 DEF Matched

LEMMA RaiseMatched ==
    ASSUME TypeOK, NEW t, Matched(t), Nested(Numbers(t))', NEW m, NEW rest, NEW top, NEW len,
           Raise(m, rest, top, len)
    PROVE  Matched(t)'
<1>1. CASE handlers = <<>>
  <2>1. UNCHANGED <<chunk, ip, calls, handlers>>
    BY <1>1 DEF Raise, loaded
  <2>2. \A j : Resume(j)' = Resume(j)
    BY <2>1 DEF Resume
  <2>. QED  BY <2>1, <2>2, MatchedStays
<1>2. CASE handlers # <<>>
  <2>. PICK h : h = handlers[Len(handlers)]
    OBVIOUS
  <2>1. Len(handlers) \in 1 .. Len(handlers) /\ h.calls \in Nat
    BY <1>2, LastHandler DEF HandlerType
  <2>2. h.calls <= Len(calls)
    BY <2>1, NestedLive DEF HandlersLive, Matched
  <2>3. calls' = Truncate(calls, h.calls)
    BY <1>2 DEF Raise
  <2>4. Len(calls') = h.calls /\ \A i \in 1 .. Len(calls') : calls'[i] = calls[i]
    BY <2>1, <2>2, <2>3, Lengths, Truncated DEF Min2
  <2>5. UNCHANGED chunk /\ ip' = h.catchIp
        /\ handlers' = SubSeq(handlers, 1, Len(handlers) - 1)
    BY <1>2 DEF Raise, loaded
  <2>6. \A p \in 1 .. Len(t[h.catchIp]) : t[h.catchIp][p] = t[Resume(h.calls)][p]
    BY <2>1 DEF Matched, OpenedBy
  <2>. QED  BY <1>2, <2>4, <2>5, <2>6, LandMatched
<1>. QED  BY <1>1, <1>2

(* A call: the handlers are those of activations that were there before.     *)
LEMMA EnterMatched ==
    ASSUME TypeOK, NEW t, Matched(t), Nested(Numbers(t))', I.op \in {"Call", "CallIndirect"},
           NEW entry, NEW size, NEW rest, NEW args,
           NEW inlined \in BOOLEAN, Enter(entry, size, rest, args, inlined)
    PROVE  Matched(t)'
<1>. PICK m \in Nat : m = Len(calls)
  BY Lengths
<1>1. CASE m < MaxCallDepth
  <2>. PICK frame : frame = [ret |-> ip + 1, base |-> localTop,
                             depth |-> Len(rest), size |-> size]
    OBVIOUS
  <2>1. calls' = Append(calls, frame) /\ UNCHANGED <<chunk, handlers>>
    BY <1>1 DEF Enter, loaded
  <2>2. Len(calls') = m + 1 /\ calls'[m + 1] = frame
        /\ \A i \in 1 .. m : calls'[i] = calls[i]
    <3>1. calls \in Seq(FrameType \cup {frame})
      BY Lengths, SeqMonotonic
    <3>. QED  BY <2>1, <3>1, AppendProperties
  <2>3. t[ip + 1] = t[ip]
    <3>1. ip + 1 \in NextOf(chunk, ip) /\ After(chunk, t, ip) = t[ip]
      BY DEF NextOf, After, I
    <3>. QED  BY <3>1, OpenHere DEF Matched, Bracketed
  <2>4. ASSUME NEW j \in 0 .. m PROVE t[Resume(j)'] = t[Resume(j)]
    <3>1. CASE j = m
      BY <2>2, <2>3, <3>1 DEF Resume
    <3>2. CASE j # m
      <4>1. j + 1 \in 1 .. m /\ j # m + 1
        BY <3>2
      <4>. QED  BY <2>2, <3>2, <4>1 DEF Resume
    <3>. QED  BY <3>1, <3>2
  <2>. QED  BY <2>1, <2>4, Labelled, MatchedStays
<1>2. CASE ~(m < MaxCallDepth) /\ inlined
  <2>1. UNCHANGED <<chunk, ip, calls, handlers>>
    BY <1>2 DEF Enter, loaded, control
  <2>2. \A j : Resume(j)' = Resume(j)
    BY <2>1 DEF Resume
  <2>. QED  BY <2>1, <2>2, MatchedStays
<1>3. CASE ~(m < MaxCallDepth) /\ ~inlined
  <2>1. PICK top, len : Raise(Text("CallStack depth limit exceeded"), rest, top, len)
    BY <1>3 DEF Enter
  <2>. QED  BY <2>1, RaiseMatched
<1>. QED  BY <1>1, <1>2, <1>3

LEMMA CallMatched ==
    ASSUME IInv, NEW t, Matched(t), Nested(Numbers(t))', Call \/ CallIndirect
    PROVE  Matched(t)'
<1>0. TypeOK /\ I.op \in {"Call", "CallIndirect"}
  BY DEF IInv, Call, CallIndirect, At
<1>1. PICK V : Closed(V) /\ Stored(V)
  BY DEF IInv, ValuesOK
<1>2. CASE Call
  <2>1. PICK entry, size, rest, args :
           Enter(entry, size, rest, args, mode = "optimized")
    BY <1>2 DEF Call
  <2>. QED  BY <1>0, <2>1, EnterMatched
<1>3. CASE CallIndirect
  <2>1. ASSUME NEW rest \in Seq(V),
               Raise(Text("not a function"), rest, localTop, localsLen)
        PROVE  Matched(t)'
    BY <1>0, <2>1, RaiseMatched
  <2>2. ASSUME NEW entry \in Entries, NEW size \in Nat, NEW rest \in Seq(V),
               NEW args \in Seq(V), Enter(entry, size, rest, args, FALSE)
        PROVE  Matched(t)'
    BY <1>0, <2>2, EnterMatched
  <2>. QED  BY <1>1, <1>3, <2>1, <2>2, CallIndirectMeans
<1>. QED  BY <1>2, <1>3

(* The function that returns has no block open, so no handler is its own.    *)
LEMMA RetMatched ==
    ASSUME TypeOK, NEW t, Matched(t), Nested(Numbers(t))', Ret
    PROVE  Matched(t)'
<1>. PICK m \in Nat \ {0} : m = Len(calls)
  BY EmptySeq, Lengths DEF Ret
<1>1. calls' = SubSeq(calls, 1, m - 1) /\ ip' = calls[m].ret
      /\ UNCHANGED <<chunk, handlers>> /\ I.op = "Ret"
  BY DEF Ret, loaded, At
<1>2. Len(calls') = m - 1 /\ \A i \in 1 .. m - 1 : calls'[i] = calls[i]
  <2>1. PICK n \in Nat : n = m - 1
    OBVIOUS
  <2>. QED  BY <1>1, <2>1, Lengths, Prefix
<1>3. t[ip] = <<>> /\ Resume(m) = ip
  BY <1>1, OpenHere DEF Matched, Bracketed, I
<1>4. ASSUME NEW i \in 1 .. Len(handlers)
      PROVE  t[Resume(handlers[i].calls)'] = t[Resume(handlers[i].calls)]
  <2>. PICK j \in 0 .. m : j = handlers[i].calls
    BY Labelled
  <2>1. j # m
    <3>1. Len(t[handlers[i].catchIp]) < Len(t[Resume(j)])
      BY DEF Matched, OpenedBy
    <3>2. Len(t[handlers[i].catchIp]) \in Nat
      BY Labelled
    <3>3. Len(t[ip]) = 0
      BY <1>3
    <3>. QED  BY <1>3, <3>1, <3>2, <3>3
  <2>2. Resume(j)' = Resume(j)
    <3>1. (j = m - 1 \/ j + 1 \in 1 .. m - 1) /\ j # m
      BY <2>1
    <3>. QED  BY <1>1, <1>2, <3>1 DEF Resume
  <2>. QED  BY <1>1, <2>2
<1>. QED  BY <1>1, <1>4, MatchedStays

(* The new handler belongs to the block that opens, the innermost one.       *)
LEMMA TryMatched ==
    ASSUME TypeOK, NEW t, Matched(t), Nested(Numbers(t))', Try
    PROVE  Matched(t)'
<1>. PICK m \in Nat : m = Len(calls)
  BY Lengths
<1>. PICK n \in Nat : n = Len(handlers)
  BY Lengths
<1>. PICK h : h = [catchIp |-> I.to, depth |-> Len(operands),
                   localsLen |-> localTop, calls |-> Len(calls)]
  OBVIOUS
<1>1. handlers' = Append(handlers, h) /\ ip' = ip + 1 /\ UNCHANGED <<chunk, calls>>
      /\ I.op = "Try"
  BY DEF Try, loaded, At
<1>2. Len(handlers') = n + 1 /\ handlers'[n + 1] = h
      /\ \A i \in 1 .. n : handlers'[i] = handlers[i]
  <2>1. handlers \in Seq(HandlerType \cup {h})
    BY Lengths, SeqMonotonic
  <2>. QED  BY <1>1, <2>1, AppendProperties
<1>. PICK s \in Seq(DOMAIN chunk.code), l \in Nat : s = t[ip] /\ l = Len(s)
  BY OpenHere
<1>3. t[ip + 1] = Append(s, ip) /\ ip \in DOMAIN chunk.code /\ t[I.to] = s
  <2>1. ip + 1 \in NextOf(chunk, ip) /\ After(chunk, t, ip) = Append(t[ip], ip)
    BY <1>1 DEF NextOf, After, I
  <2>. QED  BY <1>1, <2>1, OpenHere DEF Matched, Bracketed, I
<1>4. /\ Len(t[ip + 1]) = l + 1 /\ t[ip + 1][l + 1] = ip
      /\ \A p \in 1 .. l : t[ip + 1][p] = s[p]
  BY <1>3, AppendProperties
<1>5. Resume(m)' = ip + 1 /\ Resume(m) = ip
      /\ \A j \in 0 .. m : j # m => Resume(j)' = Resume(j)
  BY <1>1 DEF Resume
<1>6. ASSUME NEW i \in 1 .. n
      PROVE  OpenedBy(t, i)' /\ (handlers[i].calls = m => Len(t[handlers[i].catchIp]) < l)
  <2>. PICK j \in 0 .. m : j = handlers[i].calls
    BY Labelled
  <2>. PICK k \in Nat : k = Len(t[handlers[i].catchIp])
    BY Labelled
  <2>1. OpenedBy(t, i) /\ k < Len(t[Resume(j)])
    BY DEF Matched, OpenedBy
  <2>2. CASE j = m
    <3>1. k < l /\ k < l + 1 /\ \A p \in 1 .. k + 1 : p \in 1 .. l
      BY <1>5, <2>1, <2>2
    <3>2. k < Len(t[Resume(j)']) /\ \A p \in 1 .. k + 1 : t[Resume(j)'][p] = t[Resume(j)][p]
      BY <1>4, <1>5, <2>2, <3>1
    <3>. QED  BY <1>1, <1>2, <2>1, <3>1, <3>2, OpenedKept
  <2>3. CASE j # m
    BY <1>1, <1>2, <1>5, <2>1, <2>3, OpenedKept
  <2>. QED  BY <2>2, <2>3
<1>7. OpenedBy(t, n + 1)'
  <2>1. h.calls = m /\ h.catchIp = I.to
    OBVIOUS
  <2>2. t[Resume(m)'] = t[ip + 1] /\ chunk'.code[ip].to = I.to
    BY <1>1, <1>5 DEF I
  <2>3. l < l + 1 /\ \A p \in 1 .. l : s[p] = t[ip + 1][p]
    BY <1>4
  <2>4. OpenedBy(t, n + 1)' <=>
           LET outer == t[I.to]
               open  == t[Resume(m)']
           IN  /\ Len(outer) < Len(open)
               /\ \A p \in 1 .. Len(outer) : outer[p] = open[p]
               /\ chunk'.code[open[Len(outer) + 1]].to = I.to
    BY <1>2, <2>1 DEF OpenedBy
  <2>. QED  BY <1>3, <1>4, <2>2, <2>3, <2>4
<1>8. Inwards(t)'
  <2>1. \A i \in 1 .. n + 1 : i \in 1 .. n \/ i = n + 1
    OBVIOUS
  <2>2. SUFFICES ASSUME NEW i \in 1 .. n + 1, NEW j \in 1 .. n + 1, i < j,
                        handlers'[i].calls = handlers'[j].calls
                 PROVE  Len(t[handlers'[i].catchIp]) < Len(t[handlers'[j].catchIp])
    BY <1>2 DEF Inwards
  <2>3. i \in 1 .. n
    BY <2>2
  <2>4. CASE j = n + 1
    <3>1. handlers[i].calls = m /\ handlers'[j].catchIp = I.to
      BY <1>2, <2>2, <2>3, <2>4
    <3>. QED  BY <1>2, <1>3, <1>6, <2>3, <3>1
  <2>5. CASE j \in 1 .. n
    BY <1>2, <2>2, <2>3, <2>5 DEF Matched, Inwards
  <2>. QED  BY <2>1, <2>4, <2>5
<1>9. \A i \in 1 .. n + 1 : OpenedBy(t, i)'
  <2>1. \A i \in 1 .. n + 1 : i \in 1 .. n \/ i = n + 1
    OBVIOUS
  <2>. QED  BY <1>6, <1>7, <2>1
<1>. QED  BY <1>1, <1>2, <1>8, <1>9 DEF Matched

(* The innermost handler is that of the innermost open block of the running  *)
(* activation, if it has one.                                                *)
LEMMA InnermostMatched ==
    ASSUME TypeOK, NEW t, Matched(t), t[ip] # <<>>
    PROVE  /\ handlers # <<>> /\ Len(handlers) \in 1 .. Len(handlers)
           /\ handlers[Len(handlers)].calls = Len(calls)
           /\ Len(t[ip]) = Len(t[handlers[Len(handlers)].catchIp]) + 1
<1>. PICK n \in Nat : n = Len(handlers)
  BY Lengths
<1>. PICK m \in Nat : m = Len(calls)
  BY Lengths
<1>. PICK d : d = Numbers(t)
  OBVIOUS
<1>1. Len(t[ip]) # 0 /\ ip \in DOMAIN t
  BY OpenHere, EmptySeq
<1>2. Open(d)[m] = Len(t[ip])
  <2>1. m \in 0 .. m /\ Resume(m) = ip
    BY OpenHere
  <2>. QED  BY <1>1, <2>1 DEF Open, Numbers
<1>3. n # 0 /\ Levels[n] = m /\ Open(d)[m] = Marks(d)[n] + 1
  <2>1. Nest(Levels, Marks(d), n, m, Open(d))
    BY DEF Matched, Nested
  <2>. QED  BY <1>1, <1>2, <2>1, NestInnermost
<1>4. n \in 1 .. n
  BY <1>3
<1>5. Levels[n] = handlers[n].calls /\ Marks(d)[n] = Len(t[handlers[n].catchIp])
  BY <1>4, Labelled DEF Levels, Marks, Numbers
<1>. QED  BY <1>2, <1>3, <1>4, <1>5, EmptySeq

LEMMA PopTryMatched ==
    ASSUME TypeOK, NEW t, Matched(t), Nested(Numbers(t))', PopTry
    PROVE  Matched(t)'
<1>. PICK h : h = handlers[Len(handlers)]
  OBVIOUS
<1>1. handlers' = SubSeq(handlers, 1, Len(handlers) - 1) /\ ip' = ip + 1
      /\ UNCHANGED <<chunk, calls>> /\ I.op = "PopTry"
  BY DEF PopTry, loaded, At
<1>. PICK s \in Seq(DOMAIN chunk.code), l \in Nat : s = t[ip] /\ l = Len(s)
  BY OpenHere
<1>2. s # <<>> /\ t[ip'] = SubSeq(s, 1, l - 1)
  <2>1. ip + 1 \in NextOf(chunk, ip) /\ After(chunk, t, ip) = SubSeq(s, 1, l - 1)
    BY <1>1 DEF NextOf, After, I
  <2>. QED  BY <1>1, <2>1, OpenHere DEF Matched, Bracketed, I
<1>3. handlers # <<>> /\ h.calls = Len(calls) /\ l = Len(t[h.catchIp]) + 1
      /\ Len(handlers) \in 1 .. Len(handlers)
  BY <1>2, InnermostMatched
<1>4. Len(t[h.catchIp]) \in Nat
  BY <1>3, Labelled
<1>5. PICK k \in Nat : k = Len(t[h.catchIp]) /\ k = l - 1 /\ k <= l
  BY <1>3, <1>4
<1>6. Len(t[ip']) = k /\ \A p \in 1 .. k : t[ip'][p] = s[p]
  BY <1>2, <1>5, Prefix
<1>7. Resume(h.calls) = ip
  BY <1>3, OpenHere
<1>. QED  BY <1>1, <1>3, <1>5, <1>6, <1>7, LandMatched

(* The instructions that leave calls and handlers alone, stutters and the    *)
(* ends of the program among them.                                           *)
LEMMA OtherMatched ==
    ASSUME TypeOK, NEW t, Matched(t), Nested(Numbers(t))',
           \/ Push \/ Dup \/ Binary \/ Input \/ PrintValue \/ LoadGlobal \/ Closure
           \/ Pop \/ LoadLocal \/ StoreLocal \/ StoreGlobal
           \/ Jump \/ JumpIfFalse \/ Branch3 \/ Stop
    PROVE  Matched(t)'
<1>1. UNCHANGED <<chunk, calls, handlers>>
  BY DEF Push, Dup, Binary, Input, PrintValue, LoadGlobal, Closure, Yield, Pop,
     LoadLocal, StoreLocal, StoreGlobal, Jump, JumpIfFalse, Branch3, GoTo, Stop,
     loaded, control
<1>2. t[ip'] = t[ip]
  <2>1. CASE Stop
    BY <2>1 DEF Stop
  <2>2. CASE ~Stop
    <3>1. ip' \in NextOf(chunk, ip) /\ I.op \notin {"Try", "PopTry"}
      <4>1. CASE Jump \/ JumpIfFalse \/ Branch3
        BY <4>1 DEF Jump, JumpIfFalse, Branch3, GoTo, At, NextOf, I
      <4>2. CASE ~(Jump \/ JumpIfFalse \/ Branch3)
        <5>1. ip' = ip + 1
          BY <2>2, <4>2 DEF Push, Dup, Binary, Input, PrintValue, LoadGlobal, Closure,
             Yield, Pop, LoadLocal, StoreLocal, StoreGlobal
        <5>2. I.op \in {"Push", "Dup", "Binary", "Input", "Print", "LoadGlobal", "Closure",
                        "Pop", "LoadLocal", "StoreLocal", "StoreGlobal"}
          BY <2>2, <4>2 DEF Push, Dup, Binary, Input, PrintValue, LoadGlobal, Closure,
             Pop, LoadLocal, StoreLocal, StoreGlobal, At
        <5>. QED  BY <5>1, <5>2 DEF NextOf, I
      <4>. QED  BY <4>1, <4>2
    <3>2. t[ip'] = After(chunk, t, ip) /\ After(chunk, t, ip) = t[ip]
      BY <3>1, OpenHere DEF Matched, Bracketed, After, I
    <3>. QED  BY <3>2
  <2>. QED  BY <2>1, <2>2
<1>3. \A j : t[Resume(j)'] = t[Resume(j)]
  BY <1>1, <1>2 DEF Resume
<1>. QED  BY <1>1, <1>3, MatchedStays

LEMMA NextMatched ==
    ASSUME IInv, NEW t, Matched(t), [Next]_vars
    PROVE  Matched(t)'
<1>1. TypeOK
  BY DEF IInv
<1>2. Nested(Numbers(t))'
  BY NextNested DEF Matched
<1>3. CASE UNCHANGED vars
  <2>1. UNCHANGED <<chunk, ip, calls, handlers>>
    BY <1>3 DEF vars, loaded, control
  <2>2. \A j : Resume(j)' = Resume(j)
    BY <2>1 DEF Resume
  <2>. QED  BY <1>1, <1>2, <2>1, <2>2, MatchedStays
<1>4. CASE Ended
  BY <1>3, <1>4 DEF Ended
<1>5. CASE Throw
  BY <1>1, <1>2, <1>5, RaiseMatched DEF Throw
<1>6. CASE DivideByZero
  <2>1. PICK V : Closed(V) /\ Stored(V)
    BY DEF IInv, ValuesOK
  <2>2. CASE UNCHANGED <<loaded, ip, data, control, world>>
    <3>1. UNCHANGED <<chunk, ip, calls, handlers>>
      BY <2>2 DEF loaded, control
    <3>2. \A j : Resume(j)' = Resume(j)
      BY <3>1 DEF Resume
    <3>. QED  BY <1>1, <1>2, <3>1, <3>2, MatchedStays
  <2>3. ASSUME NEW rest \in Seq(V),
               Raise(Text("Division by zero in integer arithmetic."), rest,
                     localTop, localsLen)
        PROVE  Matched(t)'
    BY <1>1, <1>2, <2>3, RaiseMatched
  <2>. QED  BY <1>6, <2>1, <2>2, <2>3, DivideByZeroMeans
<1>7. CASE Step /\ ~Throw /\ ~DivideByZero
  BY <1>1, <1>2, <1>7, CallMatched, OtherMatched, RetMatched, TryMatched, PopTryMatched
     DEF Step
<1>. QED  BY <1>3, <1>4, <1>5, <1>6, <1>7 DEF Next

LEMMA MatchedReaches ==
    ASSUME TypeOK, NEW t, Matched(t)
    PROVE  ThrowReachesEnclosingCatch
<1>. SUFFICES ASSUME At("Throw"), I.try # 0
              PROVE  /\ handlers # <<>>
                     /\ handlers[Len(handlers)].catchIp = chunk.code[I.try].to
                     /\ handlers[Len(handlers)].calls = Len(calls)
  BY DEF ThrowReachesEnclosingCatch
<1>. PICK h : h = handlers[Len(handlers)]
  OBVIOUS
<1>1. t[ip] # <<>> /\ I.try = t[ip][Len(t[ip])]
  BY OpenHere DEF Matched, Bracketed, At, I
<1>2. handlers # <<>> /\ Len(handlers) \in 1 .. Len(handlers) /\ h.calls = Len(calls)
      /\ Len(t[ip]) = Len(t[h.catchIp]) + 1
  BY <1>1, InnermostMatched
<1>3. OpenedBy(t, Len(handlers)) /\ Resume(h.calls) = ip
  BY <1>2, OpenHere DEF Matched
<1>4. chunk.code[t[ip][Len(t[h.catchIp]) + 1]].to = h.catchIp
  BY <1>3 DEF OpenedBy
<1>. QED  BY <1>1, <1>2, <1>4

SomeMatched == \E t : Matched(t)

LEMMA InitMatched ==
    ASSUME Init, \A p \in Programs : \E d : Bracketed(ChunkOf[p], d)
    PROVE  SomeMatched
<1>1. PICK t : Bracketed(chunk, t)
  BY DEF Init
<1>2. Nested(Numbers(t))
  BY <1>1, BracketedCounted, InitNested
<1>3. Len(handlers) = 0
  BY DEF Init
<1>. QED  BY <1>1, <1>2, <1>3 DEF SomeMatched, Matched, Inwards

LEMMA BracketedInvariant ==
    ASSUME \A p \in Programs : \E d : Bracketed(ChunkOf[p], d)
    PROVE  Spec => [](IInv /\ SomeMatched)
<1>1. Init => SomeMatched
  BY InitMatched
<1>2. IInv /\ SomeMatched /\ [Next]_vars => SomeMatched'
  <2>1. ASSUME IInv, [Next]_vars, NEW t, Matched(t) PROVE SomeMatched'
    BY <2>1, NextMatched DEF SomeMatched
  <2>. QED  BY <2>1 DEF SomeMatched
<1>. QED  BY <1>1, <1>2, InitTyped, NextTyped, PTL DEF Spec

(* No handler outlives its function, for every program whose code brackets   *)
(* its try blocks, a condition on the code alone: however it calls, returns, *)
(* throws and exceeds the call depth.                                        *)
THEOREM VMHandlersLive ==
    ASSUME \A p \in Programs : \E d : Bracketed(ChunkOf[p], d)
    PROVE  Spec => []HandlersLive
<1>1. IInv /\ SomeMatched => HandlersLive
  BY NestedLive DEF SomeMatched, Matched, IInv
<1>. QED  BY <1>1, BracketedInvariant, PTL

(* In such a program a throw inside a try body finds that body's handler on  *)
(* top of the stack of handlers, whatever was called, thrown and caught on   *)
(* the way to it.                                                            *)
THEOREM VMThrowReachesEnclosingCatch ==
    ASSUME \A p \in Programs : \E d : Bracketed(ChunkOf[p], d)
    PROVE  Spec => []ThrowReachesEnclosingCatch
<1>1. IInv /\ SomeMatched => ThrowReachesEnclosingCatch
  BY MatchedReaches DEF SomeMatched, IInv
<1>. QED  BY <1>1, BracketedInvariant, PTL

(* So the assertion of vm.cpp:1692 holds for these programs. *)
THEOREM VMFramesApartInBracketedCode ==
    ASSUME \A p \in Programs : \E d : Bracketed(ChunkOf[p], d),
           "portable" \in Modes => \A p \in Programs : ChunkOf[p].topSize <= InitialTop
    PROVE  Spec => []FramesApart
<1>1. Spec => []HandlersLive
  BY VMHandlersLive
<1>2. Spec /\ []HandlersLive => []FramesApart
  BY VMFramesApart
<1>. QED  BY <1>1, <1>2, PTL
=============================================================================
