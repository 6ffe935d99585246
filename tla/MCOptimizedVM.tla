--------------------------- MODULE MCOptimizedVM ---------------------------
(* Chunks as the emitter writes them: functions first, each jumped over, the *)
(* last of them the function that the top level calls.                       *)
EXTENDS OptimizedVM

CONSTANTS Openings,    \* the first statements the loop's body may have
          Fragments,   \* and the second ones
          Repetitions  \* passes of the loop

-----------------------------------------------------------------------------
(* An assembler. *)

Sets(s)    == <<Op.STORE_LOCAL>> \o Bytes16(s)
Gets(s)    == <<Op.LOAD_LOCAL>> \o Bytes16(s)
Push(n)    == <<Op.PUSH_INT>> \o Bytes16(n)
                 \o [k \in 1 .. 6 |-> IF n < 0 THEN 255 ELSE 0]
Calls(f, n) == <<Op.CALL>> \o Bytes16(f) \o <<n>>
Names(o, k) == <<o>> \o Bytes16(k)
Jumps3(o, d) == <<o>> \o Bytes16(d)
Do(o)      == <<o>>
Then(list) == FlattenSeq(list)

Strings == [k \in 0 .. 6 |->
               <<"A", "B", "f", "g", "init", "get", "s">>[k + 1]]

Skipped(body) == Jumps3(Op.JUMP, Len(body)) \o body
Returned == Push(0) \o Do(Op.RET)

(* The functions, and the names of those a statement calls. *)
Functions == <<"A.init", "B.init", "A.get", "B.get", "show", "add", "fail", "count">>

FunctionBody(name) ==
    CASE name = "A.init" -> \* self.f = v
            Then(<<Gets(0), Gets(1), Names(Op.SET_FIELD, 2), Returned>>)
      [] name = "B.init" -> \* self.g = 5; self.f = v
            Then(<<Gets(0), Push(5), Names(Op.SET_FIELD, 3),
                   Gets(0), Gets(1), Names(Op.SET_FIELD, 2), Returned>>)
      [] name = "A.get" -> \* return self.f
            Then(<<Gets(0), Names(Op.GET_FIELD, 2), Do(Op.RET), Returned>>)
      [] name = "B.get" -> \* return self.g
            Then(<<Gets(0), Names(Op.GET_FIELD, 3), Do(Op.RET), Returned>>)
      [] name = "show" -> \* print(n); return n
            Then(<<Gets(0), Do(Op.PRINTLN), Do(Op.POP), Gets(0), Do(Op.RET), Returned>>)
      [] name = "add" -> \* let c = a + b; return c
            Then(<<Gets(0), Gets(1), Do(Op.ADD), Sets(2), Do(Op.POP), Gets(2),
                   Do(Op.RET), Returned>>)
      [] name = "fail" -> \* throw s
            Then(<<Gets(0), Do(Op.THROW), Returned>>)
      [] name = "count" -> \* return 2
            Then(<<Push(2), Do(Op.RET), Returned>>)

Needs(statement) ==
    CASE statement = "show(a.get())" -> {"A.get", "B.get", "show"}
      [] statement = "y = add(x, y)" -> {"add"}
      [] statement \in {"fail(s)", "try fail(s)"} -> {"fail"}
      [] statement = "y = i + count()" -> {"count"}
      [] OTHER -> {}

(* The functions of a program, in the order above; its own body comes last.  *)
Library(one, two) ==
    SelectSeq(Functions, LAMBDA name :
        name \in {"A.init", "B.init"} \cup Needs(one) \cup Needs(two))

Before(lib, k) == Then([j \in 1 .. k - 1 |-> Skipped(FunctionBody(lib[j]))])

IndexOf(lib, name) == CHOOSE k \in DOMAIN lib : lib[k] = name

-----------------------------------------------------------------------------
(* The variables of the program: x, the objects a and b, y and q; the loop's *)
(* own; and one far away. *)
X == 0  A == 1  I == 2  Stop == 3  Stride == 4  Y == 5  Q == 6  B == 7  E == 8  Far == 40

Fragment(lib, name) ==
    CASE name = "x = x + 1" ->
            Then(<<Gets(X), Push(1), Do(Op.ADD), Sets(X)>>)
      [] name = "q = x + 1" ->
            Then(<<Gets(X), Push(1), Do(Op.ADD), Sets(Q)>>)
      [] name = "x = x + 40000" ->
            Then(<<Gets(X), Push(40000), Do(Op.ADD), Sets(X)>>)
      [] name = "q = x + y" ->
            Then(<<Gets(X), Gets(Y), Do(Op.ADD), Sets(Q)>>)
      [] name = "y = y + i; pop" ->
            Then(<<Gets(Y), Gets(I), Do(Op.ADD), Sets(Y), Do(Op.POP)>>)
      [] name = "x = y; pop" -> Then(<<Gets(Y), Sets(X), Do(Op.POP)>>)
      [] name = "q = y; pop" -> Then(<<Gets(Y), Sets(Q), Do(Op.POP)>>)
      [] name = "y = i * i + y; pop" ->
            Then(<<Gets(I), Gets(I), Do(Op.MUL), Gets(Y), Do(Op.ADD), Sets(Y),
                   Do(Op.POP)>>)
      [] name = "y = y + i * i; pop" ->
            Then(<<Gets(Y), Gets(I), Gets(I), Do(Op.MUL), Do(Op.ADD), Sets(Y),
                   Do(Op.POP)>>)
      [] name = "y = x * 2 - y" ->
            Then(<<Gets(X), Push(2), Do(Op.MUL), Gets(Y), Do(Op.SUB), Sets(Y)>>)
      [] name = "swap a and b" ->
            Then(<<Gets(A), Sets(Q), Gets(B), Sets(A), Gets(Q), Sets(B)>>)
      [] name = "a.g = x" ->
            Then(<<Gets(A), Gets(X), Names(Op.SET_FIELD, 3)>>)
      [] name = "q = a.f" ->
            Then(<<Gets(A), Names(Op.GET_FIELD, 2), Sets(Q)>>)
      [] name = "show(a.get())" ->
            Then(<<Gets(A), Names(Op.INVOKE_METHOD, 5) \o <<0>>, Calls(IndexOf(lib, "show"), 1),
                   Do(Op.POP)>>)
      [] name = "y = add(x, y)" ->
            Then(<<Gets(X), Gets(Y), Calls(IndexOf(lib, "add"), 2), Sets(Y)>>)
      [] name = "y = i + count()" ->
            Then(<<Gets(I), Calls(IndexOf(lib, "count"), 0), Do(Op.ADD), Sets(Y)>>)
      [] name = "while y < 3: y = y + 1" ->
            LET body == Then(<<Gets(Y), Push(1), Do(Op.ADD), Sets(Y)>>)
                test == Then(<<Gets(Y), Push(3), Do(Op.LT)>>)
            IN  Then(<<test, Jumps3(Op.JUMP_IF_FALSE, Len(body) + 3), body,
                       Jumps3(Op.JUMP, -(Len(test) + Len(body) + 6))>>)
      [] name = "try fail(s)" ->
            LET body == Then(<<Names(Op.PUSH_STRING, 6), Calls(IndexOf(lib, "fail"), 1), Do(Op.POP),
                               Do(Op.POP_TRY)>>)
                handler == Sets(E)
            IN  Then(<<Jumps3(Op.TRY, Len(body) + 3), body,
                       Jumps3(Op.JUMP, Len(handler)), handler>>)
      [] name = "match y" ->
            LET arm(n) == Push(n) \o Sets(Q)
            IN  Then(<<Gets(Y), <<Op.BRANCH_3>>, Bytes16(4), Bytes16(17), Bytes16(30),
                       arm(1), Jumps3(Op.JUMP, 27), arm(2), Jumps3(Op.JUMP, 12), arm(3)>>)
      [] name = "x = s" -> Names(Op.PUSH_STRING, 6) \o Sets(X)
      [] name = "if i > 1: x = s" ->
            LET then == Names(Op.PUSH_STRING, 6) \o Sets(X)
            IN  Then(<<Gets(I), Push(1), Do(Op.GT),
                       Jumps3(Op.JUMP_IF_FALSE, Len(then)), then>>)
      [] name = "x = x + 2" ->
            Then(<<Gets(X), Push(2), Do(Op.ADD), Sets(X)>>)
      [] name = "q = true" -> <<Op.PUSH_BOOL, 1>> \o Sets(Q)
      [] name = "x.f = x.f; x.get()" ->
            Then(<<Gets(X), Gets(X), Names(Op.GET_FIELD, 2), Names(Op.SET_FIELD, 2),
                   Gets(X), Names(Op.INVOKE_METHOD, 5) \o <<0>>, Do(Op.POP)>>)
      [] name = "fail(s)" ->
            Then(<<Names(Op.PUSH_STRING, 6), Calls(IndexOf(lib, "fail"), 1), Do(Op.POP)>>)
      [] name = "far = x" -> Gets(X) \o Sets(Far)
      [] name = "i >= 1, i <= 1, i == 1" ->
            Then([k \in 1 .. 3 |-> Then(<<Gets(I), Push(1),
                       Do(<<Op.GE, Op.LE, Op.EQ>>[k]), Sets(Q)>>)])
      [] name = "q = a.f; y = 97" ->
            Then(<<Gets(A), Names(Op.GET_FIELD, 2), Sets(Q), Push(97), Sets(Y)>>)
      [] name = "(y > 0 and i < q) or (y < 0 and i > q)" ->
            Then(<<Gets(Y), Push(0), Do(Op.GT), Gets(I), Gets(X), Do(Op.LT),
                   Do(Op.TERNARY_MIN), Gets(Y), Push(0), Do(Op.LT), Gets(I),
                   Gets(X), Do(Op.GT), Do(Op.TERNARY_MIN), Do(Op.TERNARY_MAX),
                   Jumps3(Op.JUMP_IF_FALSE, 12), Push(1), Sets(Q)>>)

-----------------------------------------------------------------------------
LoopTest ==
    Then(<<Gets(Stride), Push(0), Do(Op.GT), Gets(I), Gets(Stop), Do(Op.LT),
           Do(Op.TERNARY_MIN), Gets(Stride), Push(0), Do(Op.LT), Gets(I),
           Gets(Stop), Do(Op.GT), Do(Op.TERNARY_MIN), Do(Op.TERNARY_MAX)>>)
Next3 == Then(<<Gets(I), Gets(Stride), Do(Op.ADD), Sets(I)>>)

Repeat(body) ==
    Then(<<Push(1), Sets(Stride), Push(Repetitions), Sets(Stop), Push(0), Sets(I),
           LoopTest, Jumps3(Op.JUMP_IF_FALSE, Len(body) + Len(Next3) + 3),
           body, Next3,
           Jumps3(Op.JUMP, -(Len(LoopTest) + Len(body) + Len(Next3) + 6))>>)

NewObject(cls, slot) ==
    Then(<<Names(Op.NEW_INSTANCE, cls) \o <<0>>, Do(Op.DUP), Gets(X),
           Names(Op.INVOKE_METHOD, 4) \o <<1>>, Do(Op.POP), Sets(slot)>>)

Body(lib, one, two) ==
    Then(<<Push(1), Sets(X), Push(0), Sets(Y), NewObject(0, A), NewObject(1, B),
           Repeat(Fragment(lib, one) \o Fragment(lib, two)),
           Gets(X), Do(Op.PRINTLN), Do(Op.POP), Returned>>)

VTable(lib, init, get) ==
    ("init" :> init) @@ (IF get \in ToSet(lib) THEN "get" :> IndexOf(lib, get)
                                               ELSE [n \in {} |-> 0])

(* Frame sizes are missing from a chunk that was read from a file. *)
WithLibrary(lib, one, two) ==
    [code |-> Then(<<Before(lib, Len(lib) + 1), Skipped(Body(lib, one, two)),
                     Calls(Len(lib) + 1, 0), Do(Op.POP), Do(Op.HALT)>>),
     functions |-> [f \in 0 .. Len(lib) + 1 |->
                        IF f = 0 THEN 0 ELSE Len(Before(lib, f)) + 3],
     frames |-> IF one = "far = x" THEN [f \in {} |-> 0]
                ELSE [f \in 0 .. Len(lib) + 1 |-> 17],
     topSize |-> 32,
     vtables |-> ("A" :> VTable(lib, 1, "A.get")) @@ ("B" :> VTable(lib, 2, "B.get")),
     strings |-> Strings]

Program(one, two) == WithLibrary(Library(one, two), one, two)

-----------------------------------------------------------------------------
(* A labelling of translated code, from the entries on.                      *)

Label(depth, room, tries) == [depth |-> depth, room |-> room, tries |-> tries]

\* Where the instruction at p leads to, with the labels due there.
Onward(o, L, p) ==
    LET instr == Byte(o.code, p)
        here  == L[p]
        left  == here.depth - Takes(instr, Byte(o.code, p + 3)) + Leaves(instr)
        n     == UInt16(o.code, p + 1)
        catch == p + 3 + Int16(o.code, p + 1)
    IN  {<<q, Label(left, here.room, here.tries)>> : q \in Successors(o.code, p, instr)}
        \cup IF instr = Op.TRY
             THEN {<<p + 3, Label(here.depth, here.room,
                        Append(here.tries, [catch |-> catch, depth |-> here.depth]))>>,
                   <<catch, Label(here.depth + 1, here.room, here.tries)>>}
             ELSE IF instr = Op.POP_TRY
             THEN {<<p + 1, [here EXCEPT !.tries = Front(@)]>>}
             ELSE IF instr = Op.CALL
             THEN {<<o.functions[n], Label(0, FrameSize(o, n, Byte(o.code, p + 3)), <<>>)>>}
             ELSE IF instr \in {Op.CALL_FAST_0, Op.CALL_FAST_1}
             THEN {<<n, Label(0, Byte(o.code, p + 3), <<>>)>>} ELSE {}

Start(o) ==
    {<<0, Label(0, o.topSize, <<>>)>>}
        \cup {<<o.functions[f], Label(0, FrameSize(o, f, 0), <<>>)>> :
                 f \in UNION {Range(o.vtables[c]) : c \in DOMAIN o.vtables}}

\* Of two labels of an instruction, the one that promises less is kept.
Added(L, new) ==
    [p \in DOMAIN L \cup {x[1] : x \in new} |->
        LET all == {x[2] : x \in {y \in new : y[1] = p}}
                      \cup (IF p \in DOMAIN L THEN {L[p]} ELSE {})
        IN  CHOOSE l \in all : \A k \in all : l.depth <= k.depth]

Labelling(o) ==
    LET after[n \in Nat] ==
            IF n = 0 THEN [labels |-> Added([p \in {} |-> 0], Start(o)),
                           todo |-> {x[1] : x \in Start(o)}]
            ELSE LET t   == after[n - 1]
                     new == UNION {Onward(o, t.labels, p) : p \in t.todo}
                     all == Added(t.labels, new)
                 IN  IF t.todo = {} THEN t
                     ELSE [labels |-> all,
                           todo   |-> {p \in DOMAIN all : p \notin DOMAIN t.labels
                                                      \/ all[p] # t.labels[p]}]
    IN  after[Cardinality(DOMAIN o.origin)].labels

MCChunks == {Program(one, two) : one \in Openings, two \in Fragments}

(* The theorems of OptimizerProofs about the loop are for chunks whose       *)
(* translation can be verified: those of every program above can.            *)
ASSUME ProgramsVerified ==
    \A c \in MCChunks : LET o == Optimize(c)
                            L == Labelling(o)
                        IN  Verified(o, L) /\ Faithful(c, o, L)
=============================================================================
