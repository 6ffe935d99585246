----------------------------- MODULE JITTiering -----------------------------
(***************************************************************************)
(* The tiering half of the JIT: which native code a call or a back edge of *)
(* the interpreter is sent to.  JITManager keeps the compiled code, one    *)
(* object per bytecode address (code_cache_); ChunkRuntimeMetadata keeps   *)
(* two tables of slots with counters and code addresses, one for functions *)
(* and one for loops; the interpreter reaches the slots by masking a       *)
(* function's index or a loop's address.                                   *)
(*                                                                         *)
(* What the two code generators emit is abstracted to what tiering tells   *)
(* apart: whose code it is, and which loops it can be entered at.  No      *)
(* compiled code gives up half way (none of the emitted instructions       *)
(* leaves a deopt code), so the entry of native code and its return are    *)
(* one step here.                                                          *)
(***************************************************************************)
EXTENDS Integers, Sequences, FiniteSets

CONSTANTS
    Programs,      \* the programs considered: see ProgramsOK
    SlotCount,     \* function slots of a fresh table (128, doubled until the functions fit)
    Slack,         \* slots added beyond an index that does not fit (16)
    LoopSlots,     \* loop slots (128)
    Tier1Calls,    \* calls that make a function hot (50)
    OsrEdges,      \* back edges that make a loop hot (200)
    CallPenalty,   \* added to a function's threshold when nothing was compiled (100)
    EdgePenalty,   \* the same for a loop (1000)
    MinCode,       \* functions with less bytecode are not compiled (4)
    PicSize,       \* receivers one method call site remembers (4)
    MaxDepth,      \* bound: interpreted frames
    MaxCount       \* bound: calls or back edges one slot counts

\* The values of a function.
Image(f) == {f[x] : x \in DOMAIN f}

\* Powers of two.
Power == [k \in 0 .. 30 |-> 2 ^ k]

Top == -1                     \* the code outside every function
NoLoop == 0

\* The code a slot leads to: a built code object (0: none, a null pointer),
\* whose code it is, and where it is entered (NoLoop: at its beginning).
NoCode == [id |-> 0, unit |-> Top, loop |-> NoLoop]

(***************************************************************************)
(* A chunk: where each function starts, its length, where its loops are    *)
(* and which of them the two compilers give an entry, and the units the    *)
(* baseline compiler knows every instruction of.                           *)
(***************************************************************************)
Chunks(n, loops) ==
    [entry    : [0 .. n - 1 -> Nat \ {0}],
     size     : Nat,
     loops    : [loops -> [of : {Top} \cup 0 .. n - 1, at : Nat,
                           tier1 : BOOLEAN, tier2 : BOOLEAN]],
     baseline : SUBSET ({Top} \cup 0 .. n - 1)]

\* A program of n functions as the compiler left it (raw) and as the interpreter
\* runs it (run: the optimised bytecode, or raw again in the portable loops); the
\* functions it calls by OP_CALL, those it calls without a look at any slot
\* (OP_CALL_FAST_0/1, OP_INVOKE_METHOD_IC of the optimised bytecode), the method
\* each receiver has at a call site of OP_INVOKE_METHOD, and who set the JIT up:
\* cmd_run ("prearmed"), cmd_run with --jit-tier1 ("tier1"), or a program that
\* hands the VM a new JITManager, as the tests do ("embedded").
ProgramsOK ==
    \A p \in Programs :
        /\ p.n \in 1 .. Power[16] /\ p.loops \subseteq Nat \ {NoLoop}
        /\ p.raw \in Chunks(p.n, p.loops)
        /\ p.run \in Chunks(p.n, p.loops)
        /\ \A f, g \in 0 .. p.n - 1 :
              f # g => p.raw.entry[f] # p.raw.entry[g] /\ p.run.entry[f] # p.run.entry[g]
        /\ \A l, m \in p.loops :
              l # m => p.raw.loops[l].at # p.raw.loops[m].at
                       /\ p.run.loops[l].at # p.run.loops[m].at
        /\ \A l \in p.loops : p.raw.loops[l].of = p.run.loops[l].of
        /\ p.called \subseteq 0 .. p.n - 1
        /\ p.plain \subseteq 0 .. p.n - 1
        /\ \A s \in DOMAIN p.sites : Image(p.sites[s]) \subseteq 0 .. p.n - 1
        /\ p.mode \in {"prearmed", "embedded", "tier1"}

ASSUME TieringAssumption ==
    /\ ProgramsOK
    /\ {LoopSlots, Tier1Calls, OsrEdges} \subseteq Nat \ {0}
    /\ SlotCount \in {Power[k] : k \in 0 .. 10}
    /\ {Slack, CallPenalty, EdgePenalty, MinCode, PicSize, MaxDepth, MaxCount} \subseteq Nat

VARIABLES
    prog,        \* the program
    phase,       \* "arm", "run", "done"
    armed,       \* functions compiled before the run
    cache,       \* code_cache_: address -> code object
    builds,      \* native code buffers made so far; an object's id is its number
    hot,         \* function_hot_
    view,        \* the VM's copy of that table's size; ok: and of its address
    lhot,        \* loop_hot_
    ic,          \* method call sites: receiver -> native code
    mega,        \* call sites that gave up remembering
    frames,      \* the functions being interpreted, innermost last
    entered      \* the native code entered last, what it was entered for, and
                 \* whether its buffer was still there

vars == <<prog, phase, armed, cache, builds, hot, view, lhot, ic, mega, frames, entered>>
jit  == <<cache, builds, hot, view>>

Functions == 0 .. prog.n - 1
AutoTiering == prog.mode # "tier1"          \* policy_.enable_auto_tiering

FreshFn   == [native |-> NoCode, count |-> 0, limit |-> Tier1Calls, tier |-> 0]
FreshLoop == [osr |-> NoCode, count |-> 0, limit |-> OsrEdges, tier |-> 0]
NoEntry   == [unit |-> Top, loop |-> NoLoop, code |-> NoCode, live |-> TRUE]

\* cmd_run doubles the table until every function fits, with 16 slots to spare;
\* set_jit_manager() does not.
Roomy(p) == {k \in 0 .. 17 : SlotCount * Power[k] >= p.n + 16}

TableSize(p) ==
    IF p.mode = "prearmed"
    THEN SlotCount * Power[CHOOSE k \in Roomy(p) : \A j \in Roomy(p) : k <= j]
    ELSE SlotCount

Init ==
    /\ prog \in Programs
    /\ phase = "arm"
    /\ armed = IF prog.mode = "prearmed" THEN 0 ELSE prog.n
    /\ cache = << >> /\ builds = 0
    /\ hot = [i \in 0 .. TableSize(prog) - 1 |-> FreshFn]
    /\ view = [size |-> 1, ok |-> FALSE]
    /\ lhot = [i \in 0 .. LoopSlots - 1 |-> FreshLoop]
    /\ ic = [s \in DOMAIN prog.sites |-> << >>]
    /\ mega = {}
    /\ frames = << >>
    /\ entered = NoEntry

-----------------------------------------------------------------------------
(* Addresses.                                                              *)

\* The bits of a number below 2^30 that are one, and a & b.
BitsOf(a) == {k \in 0 .. 29 : (a \div Power[k]) % 2 = 1}

And(a, b) == CHOOSE c \in 0 .. a : BitsOf(c) = BitsOf(a) \cap BitsOf(b)

Slot_SizeAsMask(f) == And(f, view.size)
Slot(f) == And(f, view.size - 1)
LoopSlot(at) == at % LoopSlots

IpOf(chunk, u) == IF u = Top THEN 0 ELSE chunk.entry[u]

\* compile_tier2() looks the address up in the function table; an address that
\* is no function's is taken for the index itself.
IndexOf(chunk, ip) ==
    IF \E f \in DOMAIN chunk.entry : chunk.entry[f] = ip
    THEN CHOOSE f \in DOMAIN chunk.entry : chunk.entry[f] = ip
    ELSE ip

\* get_function_hot(): the table grows to hold the index.
Grown(table, i) ==
    IF i \in DOMAIN table THEN table
    ELSE [j \in 0 .. i + Slack - 1 |-> IF j \in DOMAIN table THEN table[j] ELSE FreshFn]

WithCode(table, i, code) ==
    [Grown(table, i) EXCEPT ![i].native = code, ![i].tier = 2]

-----------------------------------------------------------------------------
(* Code objects.                                                           *)

NoObject == [status |-> "uncompiled", id |-> 0, unit |-> Top, loops |-> {}]

\* get_or_create()
ObjectAt(ip) == IF ip \in DOMAIN cache THEN cache[ip] ELSE NoObject

Put(ip, obj) == [i \in DOMAIN cache \cup {ip} |-> IF i = ip THEN obj ELSE cache[i]]

Entry(obj) == [id |-> obj.id, unit |-> obj.unit, loop |-> NoLoop]

\* The buffer an address points into lives as long as its object is in the cache.
Live(code) ==
    \E ip \in DOMAIN cache : cache[ip].status = "compiled" /\ cache[ip].id = code.id

\* Code built for unit u of a chunk, and the loops it can be entered at.
Built(chunk, u, given) ==
    [status |-> "compiled", id |-> builds + 1, unit |-> u,
     loops |-> {[at |-> chunk.loops[l].at, loop |-> l] :
                   l \in {m \in given : chunk.loops[m].of = u}}]

\* compile_function(): the object at u's address afterwards.
Baseline_Again(u) ==
    IF u \in prog.run.baseline
    THEN Built(prog.run, u, {l \in prog.loops : prog.run.loops[l].tier1})
    ELSE [ObjectAt(IpOf(prog.run, u)) EXCEPT !.status = "failed"]

Baseline(u) ==
    LET obj == ObjectAt(IpOf(prog.run, u)) IN
    IF obj.status = "compiled" THEN obj
    ELSE IF u \in prog.run.baseline
         THEN Built(prog.run, u, {l \in prog.loops : prog.run.loops[l].tier1})
         ELSE [obj EXCEPT !.status = "failed"]

Tier2Object(chunk, u) == Built(chunk, u, {l \in prog.loops : chunk.loops[l].tier2})

\* has_osr_entry() and find_by_bytecode_ip()
OsrEntry(obj, at) ==
    {[id |-> obj.id, unit |-> obj.unit, loop |-> e.loop] :
        e \in {d \in obj.loops : obj.status = "compiled" /\ d.at = at}}

\* The slots after compile_tier2(): its code goes into the slot of the function's
\* index and into the slot of the function's address.
Tier2Table(table, chunk, u) ==
    LET code == Entry(Tier2Object(chunk, u))
        ip   == IpOf(chunk, u)
    IN  WithCode(WithCode(table, IndexOf(chunk, ip), code), ip, code)

\* An object enters the cache; the one it replaces is destroyed, buffer included.
Store(chunk, u, obj) ==
    /\ cache' = Put(IpOf(chunk, u), obj)
    /\ builds' = IF obj.id > builds THEN obj.id ELSE builds

\* The table is written; growing moves it away from under the VM's pointer.
SetTable(table) ==
    /\ hot' = table
    /\ view' = [view EXCEPT !.ok = @ /\ DOMAIN table = DOMAIN hot]

-----------------------------------------------------------------------------
(* Before the run.                                                         *)

\* cmd_run compiles every function of the chunk the compiler made.
PreArm ==
    /\ phase = "arm" /\ armed < prog.n
    /\ Store(prog.raw, armed, Tier2Object(prog.raw, armed))
    /\ SetTable(Tier2Table(hot, prog.raw, armed))
    /\ armed' = armed + 1
    /\ UNCHANGED <<prog, phase, lhot, ic, mega, frames, entered>>

\* set_jit_manager() and the head of the run loop take the table's address and
\* size; the mask is the size less one.
Bind ==
    /\ phase = "arm" /\ armed = prog.n
    /\ phase' = "run"
    /\ view' = [size |-> Cardinality(DOMAIN hot), ok |-> TRUE]
    /\ UNCHANGED <<prog, armed, cache, builds, hot, lhot, ic, mega, frames, entered>>

-----------------------------------------------------------------------------
(* Calls.                                                                  *)

Current == IF frames = << >> THEN Top ELSE frames[Len(frames)]

Interpret(f) ==
    /\ Len(frames) < MaxDepth
    /\ frames' = Append(frames, f)

\* Native code is entered for unit u, or for its loop l, and runs to its end.
EnterNative(code, u, l) ==
    entered' = [unit |-> u, loop |-> l, code |-> code, live |-> Live(code)]

\* slow_tiering_coordinator_call(), on the slot whose count has been raised.
PromoteCall(f, counted) ==
    LET s    == Slot(f)
        base == Baseline(f)
    IN  \/ /\ ~AutoTiering \/ prog.run.size - prog.run.entry[f] < MinCode
           /\ SetTable([counted EXCEPT ![s].limit = @ + CallPenalty])
           /\ UNCHANGED <<cache, builds>>
        \/ /\ AutoTiering /\ prog.run.size - prog.run.entry[f] >= MinCode
           /\ base.status = "compiled"
           /\ Store(prog.run, f, base)
           /\ SetTable([counted EXCEPT ![s].native = Entry(base), ![s].tier = 1])
        \/ /\ AutoTiering /\ prog.run.size - prog.run.entry[f] >= MinCode
           /\ base.status = "failed"
           /\ Store(prog.run, f, Tier2Object(prog.run, f))
           /\ SetTable([Tier2Table(counted, prog.run, f) EXCEPT
                           ![s].native = Entry(Tier2Object(prog.run, f)), ![s].tier = 2])

\* OP_CALL
CallNative(f) ==
    /\ phase = "run" /\ f \in prog.called
    /\ hot[Slot(f)].native # NoCode
    /\ EnterNative(hot[Slot(f)].native, f, NoLoop)
    /\ UNCHANGED <<prog, phase, armed, jit, lhot, ic, mega, frames>>

Call(f) ==
    LET s       == Slot(f)
        counted == [hot EXCEPT ![s].count = @ + 1]
    IN  /\ phase = "run" /\ f \in prog.called
        /\ hot[s].native = NoCode
        /\ hot[s].count < MaxCount
        /\ Interpret(f)
        /\ IF counted[s].count >= hot[s].limit
           THEN PromoteCall(f, counted)
           ELSE SetTable(counted) /\ UNCHANGED <<cache, builds>>
        /\ UNCHANGED <<prog, phase, armed, lhot, ic, mega, entered>>

\* OP_CALL_FAST_0, OP_CALL_FAST_1 and the optimised bytecode's method calls
CallPlain(f) ==
    /\ phase = "run" /\ f \in prog.plain
    /\ Interpret(f)
    /\ UNCHANGED <<prog, phase, armed, jit, lhot, ic, mega, entered>>

\* OP_INVOKE_METHOD on receiver r at call site s: known receiver,
Known(s, r) == s \notin mega /\ r \in DOMAIN ic[s]

InvokeNative(s, r) ==
    /\ phase = "run" /\ Known(s, r)
    /\ ic[s][r] # NoCode
    /\ EnterNative(ic[s][r], prog.sites[s][r], NoLoop)
    /\ UNCHANGED <<prog, phase, armed, jit, lhot, ic, mega, frames>>

InvokeKnown(s, r) ==
    /\ phase = "run" /\ Known(s, r)
    /\ ic[s][r] = NoCode
    /\ Interpret(prog.sites[s][r])
    /\ UNCHANGED <<prog, phase, armed, jit, lhot, ic, mega, entered>>

\* or new receiver, remembered with the code its method has now; one too many and
\* the site remembers nothing any more.
InvokeNew(s, r) ==
    LET f == prog.sites[s][r] IN
    /\ phase = "run" /\ ~Known(s, r)
    /\ Interpret(f)
    /\ IF s \in mega THEN UNCHANGED <<ic, mega>>
       ELSE IF Cardinality(DOMAIN ic[s]) < PicSize
       THEN /\ ic' = [ic EXCEPT ![s] = [x \in DOMAIN ic[s] \cup {r} |->
                                          IF x = r THEN hot[Slot(f)].native ELSE ic[s][x]]]
            /\ UNCHANGED mega
       ELSE mega' = mega \cup {s} /\ UNCHANGED ic
    /\ UNCHANGED <<prog, phase, armed, jit, lhot, entered>>

Return ==
    /\ phase = "run" /\ frames # << >>
    /\ frames' = SubSeq(frames, 1, Len(frames) - 1)
    /\ UNCHANGED <<prog, phase, armed, jit, lhot, ic, mega, entered>>

Halt ==
    /\ phase = "run" /\ frames = << >>
    /\ phase' = "done"
    /\ UNCHANGED <<prog, armed, jit, lhot, ic, mega, frames, entered>>

-----------------------------------------------------------------------------
(* Back edges.                                                             *)

\* slow_tiering_coordinator_osr(): loop slot s, raised already, of the loop at
\* address at in unit u.
PromoteLoop(u, at, s, counted) ==
    LET base  == Baseline(u)
        built == Tier2Object(prog.run, u)
    IN  \/ /\ ~AutoTiering
           /\ lhot' = [counted EXCEPT ![s].limit = @ + EdgePenalty]
           /\ UNCHANGED jit
        \/ /\ AutoTiering
           /\ \E code \in OsrEntry(base, at) :
                 lhot' = [counted EXCEPT ![s].osr = code, ![s].tier = 1]
           /\ Store(prog.run, u, base)
           /\ UNCHANGED <<hot, view>>
        \/ /\ AutoTiering /\ OsrEntry(base, at) = {}
           /\ Store(prog.run, u, built)
           /\ SetTable(Tier2Table(hot, prog.run, u))
           /\ \/ \E code \in OsrEntry(built, at) :
                    lhot' = [counted EXCEPT ![s].osr = code, ![s].tier = 2]
              \/ /\ OsrEntry(built, at) = {}
                 /\ lhot' = [counted EXCEPT ![s].limit = @ + EdgePenalty]

\* The loop goes on in native code, which runs to the end of the function.
BackEdgeNative(l) ==
    LET code == lhot[LoopSlot(prog.run.loops[l].at)].osr IN
    /\ phase = "run" /\ prog.run.loops[l].of = Current
    /\ code # NoCode
    /\ EnterNative(code, Current, l)
    /\ IF frames = << >>
       THEN phase' = "done" /\ UNCHANGED frames
       ELSE frames' = SubSeq(frames, 1, Len(frames) - 1) /\ UNCHANGED phase
    /\ UNCHANGED <<prog, armed, jit, lhot, ic, mega>>

BackEdge(l) ==
    LET at      == prog.run.loops[l].at
        s       == LoopSlot(at)
        counted == [lhot EXCEPT ![s].count = @ + 1]
    IN  /\ phase = "run" /\ prog.run.loops[l].of = Current
        /\ lhot[s].osr = NoCode
        /\ lhot[s].count < MaxCount
        /\ IF counted[s].count >= lhot[s].limit
           THEN PromoteLoop(Current, at, s, counted)
           ELSE lhot' = counted /\ UNCHANGED jit
        /\ UNCHANGED <<prog, phase, armed, ic, mega, frames, entered>>

-----------------------------------------------------------------------------
Next ==
    \/ PreArm \/ Bind \/ Return \/ Halt
    \/ \E f \in Functions : CallNative(f) \/ Call(f) \/ CallPlain(f)
    \/ \E s \in DOMAIN prog.sites : \E r \in DOMAIN prog.sites[s] :
          InvokeNative(s, r) \/ InvokeKnown(s, r) \/ InvokeNew(s, r)
    \/ \E l \in prog.loops : BackEdgeNative(l) \/ BackEdge(l)

Spec == Init /\ [][Next]_vars

-----------------------------------------------------------------------------
(* What must hold.                                                         *)

\* A call that goes to native code enters the code of the function it calls, at
\* its beginning, and a back edge that does goes on in its own loop of its own
\* function: vm.cpp reaches a slot by a function's index or a loop's address and
\* a mask, jit_manager.cpp fills slots by index and by address, a method call
\* site keeps what the slot held once, and recompiling fills them again.
EntersTheRightCode ==
    entered.code # NoCode =>
        entered.code.unit = entered.unit /\ entered.code.loop = entered.loop

\* Native code is entered only while the buffer it lies in exists, though a
\* recompiled function destroys the old one and slots, loop slots and call sites
\* keep bare addresses; and the VM's pointer to the table follows the table.
NothingDangles == entered.live /\ (phase = "run" => view.ok)

(***************************************************************************)
(* Where the code of a program must lie for that.  The source states no    *)
(* such condition; each conjunct is needed (see README.md).                *)
(***************************************************************************)
Units(p)     == {Top} \cup 0 .. p.n - 1
MethodsOf(p) == UNION {Image(p.sites[s]) : s \in DOMAIN p.sites}
LoopsIn(p, u) == {l \in p.loops : p.run.loops[l].of = u}

\* The object before the run, of a function the interpreter runs where it was
\* compiled.
SameCode(p, u) == p.mode = "prearmed" /\ u # Top /\ p.raw.entry[u] = p.run.entry[u]

\* The first object built for u has an entry for each of u's loops, so nothing is
\* built twice.
Settled(p, u) ==
    IF SameCode(p, u)
    THEN \A l \in LoopsIn(p, u) :
            p.raw.loops[l].tier2 /\ p.raw.loops[l].at = p.run.loops[l].at
    ELSE \/ u \in p.run.baseline /\ \A l \in LoopsIn(p, u) : p.run.loops[l].tier1
         \/ u \notin p.run.baseline /\ \A l \in LoopsIn(p, u) : p.run.loops[l].tier2

\* Nothing but u's own function slot ever keeps an address of u's code.
Unshared(p, u) ==
    /\ u \notin MethodsOf(p)
    /\ \A l \in LoopsIn(p, u) :
          ~p.raw.loops[l].tier2 /\ ~p.run.loops[l].tier1 /\ ~p.run.loops[l].tier2

WellPlaced(p) ==
    /\ \A f \in 0 .. p.n - 1 :
          {p.raw.entry[f], p.run.entry[f]} \subseteq p.n .. TableSize(p) - 1
    /\ \A f, g \in 0 .. p.n - 1 : f # g => p.raw.entry[f] # p.run.entry[g]
    /\ \A l, m \in p.loops :
          l # m => LoopSlot(p.run.loops[l].at) # LoopSlot(p.run.loops[m].at)
    /\ \/ LoopsIn(p, Top) = {}
       \/ 0 \notin p.called \cup MethodsOf(p)
       \/ Top \in p.run.baseline /\ \A l \in LoopsIn(p, Top) : p.run.loops[l].tier1
    /\ \A u \in Units(p) : Settled(p, u) \/ Unshared(p, u)

-----------------------------------------------------------------------------
(* Why it is enough: what holds of a program that lies well, in every state. *)

Table == 0 .. TableSize(prog) - 1
Codes == [id : Nat, unit : Units(prog), loop : Nat]

Shapes ==
    /\ armed \in 0 .. prog.n
    /\ builds \in Nat
    /\ DOMAIN hot = Table /\ DOMAIN lhot = 0 .. LoopSlots - 1
    /\ \A i \in Table :
          hot[i] \in [native : Codes, count : Nat, limit : Nat, tier : Nat]
    /\ \A i \in DOMAIN lhot :
          lhot[i] \in [osr : Codes, count : Nat, limit : Nat, tier : Nat]
    /\ view \in [size : Nat, ok : BOOLEAN]
    /\ DOMAIN ic = DOMAIN prog.sites
    /\ \A s \in DOMAIN ic : DOMAIN ic[s] \subseteq DOMAIN prog.sites[s]

\* The VM looks at the whole table, where it lies.
ViewFollows == phase # "arm" => view.size = TableSize(prog) /\ view.ok

\* The code outlived nothing: its buffer is that of an object of its unit.
Backed(code) ==
    \E ip \in DOMAIN cache : cache[ip].id = code.id /\ cache[ip].unit = code.unit

\* Objects lie at the addresses of their units, and those at an address the
\* interpreter knows have the entries the loops of the unit need.
Objects == [status : {"compiled"}, id : Nat, unit : Units(prog),
            loops : SUBSET [at : Nat, loop : prog.loops]]

Wanted(u) == {[at |-> prog.run.loops[l].at, loop |-> l] : l \in LoopsIn(prog, u)}

HasEntriesOf(obj, u) ==
    /\ obj.loops \subseteq Wanted(u)
    /\ Settled(prog, u)  => obj.loops = Wanted(u)
    /\ Unshared(prog, u) => obj.loops = {}

ObjectsAtHome ==
    /\ \A ip \in DOMAIN cache : cache[ip] \in Objects
    /\ \A u \in Units(prog) :
          \A ip \in {IpOf(prog.raw, u), IpOf(prog.run, u)} \cap DOMAIN cache :
              cache[ip].unit = u
    /\ \A u \in Units(prog) :
          IpOf(prog.run, u) \in DOMAIN cache => HasEntriesOf(cache[IpOf(prog.run, u)], u)

\* What was compiled before the run.
ArmedFirst ==
    /\ phase # "arm" \/ prog.mode # "prearmed" => armed = prog.n
    /\ phase = "arm" => DOMAIN cache \subseteq {prog.raw.entry[f] : f \in 0 .. armed - 1}
    /\ prog.mode = "prearmed" =>
          {prog.raw.entry[f] : f \in 0 .. armed - 1} \subseteq DOMAIN cache

CodeOf(code, u, l) == code # NoCode => code.unit = u /\ code.loop = l /\ Backed(code)

SlotsRight ==
    \A f \in prog.called \cup MethodsOf(prog) : CodeOf(hot[f].native, f, NoLoop)

LoopsRight ==
    \A l \in prog.loops :
        LET u    == prog.run.loops[l].of
            code == lhot[LoopSlot(prog.run.loops[l].at)].osr
        IN  CodeOf(code, u, l) /\ (Unshared(prog, u) => code = NoCode)

SitesRight ==
    \A s \in DOMAIN ic : \A r \in DOMAIN ic[s] :
        CodeOf(ic[s][r], prog.sites[s][r], NoLoop)

IInv ==
    /\ Shapes /\ ViewFollows /\ ObjectsAtHome /\ ArmedFirst
    /\ SlotsRight /\ LoopsRight /\ SitesRight
    /\ EntersTheRightCode /\ NothingDangles

=============================================================================
