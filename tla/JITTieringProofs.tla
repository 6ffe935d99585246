-------------------------- MODULE JITTieringProofs --------------------------
(* In a program that lies well, whatever its size, a call or a back edge     *)
(* enters the code it means, and never code whose buffer is gone.            *)
EXTENDS JITTiering, FiniteSetTheorems, WellFoundedInduction, TLAPS

-----------------------------------------------------------------------------
(* Masks.  The VM reaches a slot by index & (size - 1), which is the index   *)
(* when the size is a power of two.                                          *)

(* The smallest number of a set of naturals.                                 *)
LEMMA Smallest ==
    ASSUME NEW S, S \subseteq Nat, S # {}
    PROVE  \E n \in S : \A m \in S : n <= m
<1>1. PICK n \in S : \A m \in S : ~(<<m, n>> \in OpToRel(<, Nat))
  BY NatLessThanWellFounded, WFMin
<1>2. \A m \in S : ~(m < n)
  BY <1>1 DEF OpToRel
<1> QED
  BY <1>2

LEMMA Doubles ==
    /\ Power[0] = 1
    /\ \A k \in 0 .. 30 : Power[k] \in Nat \ {0}
    /\ \A k \in 0 .. 29 : Power[k + 1] = 2 * Power[k]
<1>1. /\ Power[0] = 1 /\ Power[1] = 2 /\ Power[2] = 4 /\ Power[3] = 8
      /\ Power[4] = 16 /\ Power[5] = 32 /\ Power[6] = 64 /\ Power[7] = 128
      /\ Power[8] = 256 /\ Power[9] = 512 /\ Power[10] = 1024 /\ Power[11] = 2048
      /\ Power[12] = 4096 /\ Power[13] = 8192 /\ Power[14] = 16384 /\ Power[15] = 32768
      /\ Power[16] = 65536 /\ Power[17] = 131072 /\ Power[18] = 262144 /\ Power[19] = 524288
      /\ Power[20] = 1048576 /\ Power[21] = 2097152 /\ Power[22] = 4194304 /\ Power[23] = 8388608
      /\ Power[24] = 16777216 /\ Power[25] = 33554432 /\ Power[26] = 67108864 /\ Power[27] = 134217728
      /\ Power[28] = 268435456 /\ Power[29] = 536870912 /\ Power[30] = 1073741824
  BY DEF Power
<1>2. \A k \in 0 .. 29 :
      \/ k = 0 \/ k = 1 \/ k = 2 \/ k = 3 \/ k = 4 \/ k = 5 \/ k = 6 \/ k = 7
      \/ k = 8 \/ k = 9 \/ k = 10 \/ k = 11 \/ k = 12 \/ k = 13 \/ k = 14 \/ k = 15
      \/ k = 16 \/ k = 17 \/ k = 18 \/ k = 19 \/ k = 20 \/ k = 21 \/ k = 22 \/ k = 23
      \/ k = 24 \/ k = 25 \/ k = 26 \/ k = 27 \/ k = 28 \/ k = 29
  OBVIOUS
<1> QED
  BY <1>1, <1>2

LEMMA PowersOrdered ==
    ASSUME NEW i \in 0 .. 30, NEW j \in i .. 30
    PROVE  Power[i] <= Power[j]
<1> DEFINE S == {m \in i .. 30 : ~ (Power[i] <= Power[m])}
<1> SUFFICES ASSUME S # {} PROVE FALSE
  OBVIOUS
<1>0. S \subseteq Nat
  OBVIOUS
<1> HIDE DEF S
<1>1. PICK n \in S : \A m \in S : n <= m
  BY <1>0, Smallest
<1> USE DEF S
<1>2. n # i
  BY <1>1, Doubles
<1>3. n - 1 \in i .. 30 /\ n - 1 \in 0 .. 29 /\ (n - 1) + 1 = n
  BY <1>2
<1>4. Power[i] <= Power[n - 1]
  BY <1>1, <1>3
<1>5. Power[n] = 2 * Power[n - 1] /\ Power[n - 1] \in Nat /\ Power[i] \in Nat
  BY <1>3, Doubles
<1> QED
  BY <1>1, <1>4, <1>5

LEMMA PowersGrow ==
    ASSUME NEW j \in 0 .. 30
    PROVE  Power[j] \in 1 .. Power[30]
<1>1. j \in 0 .. 30 /\ 30 \in j .. 30
  OBVIOUS
<1>2. Power[j] <= Power[30]
  BY <1>1, PowersOrdered
<1>3. Power[j] \in Nat \ {0} /\ Power[30] \in Nat \ {0}
  BY Doubles
<1> QED
  BY <1>2, <1>3

(* The bit of a number at place k is what is lost when its quotients by two  *)
(* neighbouring powers are compared.                                         *)
LEMMA Halves ==
    ASSUME NEW a \in Nat, NEW k \in 0 .. 29
    PROVE  /\ a \div Power[k] \in Nat /\ a \div Power[k + 1] \in Nat
           /\ a \div Power[k] = 2 * (a \div Power[k + 1]) + ((a \div Power[k]) % 2)
           /\ (a \div Power[k]) % 2 \in 0 .. 1
<1> DEFINE P == Power[k]
           Q == Power[k + 1]
<1>1. P \in Nat \ {0} /\ Q = 2 * P
  BY Doubles
<1> HIDE DEF P, Q
<1>2. a \div Q = (a \div P) \div 2
  BY <1>1
<1>3. a \div P \in Nat
  BY <1>1
<1>4. ASSUME NEW q \in Nat
      PROVE  q = 2 * (q \div 2) + (q % 2) /\ (q % 2) \in 0 .. 1 /\ q \div 2 \in Nat
  BY SMT
<1> QED
  BY <1>2, <1>3, <1>4 DEF P, Q

(* A number below 2 ^ 30 is determined by its bits.                          *)
LEMMA BitsDetermine ==
    ASSUME NEW a \in 0 .. Power[30] - 1, NEW b \in 0 .. Power[30] - 1, BitsOf(a) = BitsOf(b)
    PROVE  a = b
<1> DEFINE Same(k) == a \div Power[k] = b \div Power[k]
           S       == {k \in 0 .. 30 : Same(k)}
<1>1. 30 \in S
  <2> DEFINE P == Power[30]
  <2>1. P \in Nat \ {0}
    BY Doubles
  <2> HIDE DEF P
  <2>2. \A x \in 0 .. P - 1 : x \div P = 0
    BY <2>1
  <2> QED
    BY <2>2 DEF P
<1> HIDE DEF S
<1>2. PICK n \in S : \A m \in S : n <= m
  <2>1. S \subseteq Nat
    BY DEF S
  <2> QED
    BY <1>1, <2>1, Smallest
<1> USE DEF S
<1>3. ASSUME n # 0 PROVE FALSE
  <2> DEFINE k == n - 1
  <2>1. k \in 0 .. 29 /\ k + 1 = n
    BY <1>3
  <2>0. a \in Nat /\ b \in Nat
    BY Doubles
  <2> HIDE DEF k
  <2>2. a \div Power[k + 1] = b \div Power[k + 1]
    BY <2>1
  <2>3. (a \div Power[k]) % 2 = (b \div Power[k]) % 2
    <3>1. (a \div Power[k]) % 2 = 1 <=> (b \div Power[k]) % 2 = 1
      BY <2>1 DEF BitsOf
    <3>2. (a \div Power[k]) % 2 \in 0 .. 1 /\ (b \div Power[k]) % 2 \in 0 .. 1
      BY <2>0, <2>1, Halves
    <3> QED
      BY <3>1, <3>2
  <2>4. Same(k)
    <3>1. a \div Power[k] = 2 * (a \div Power[k + 1]) + ((a \div Power[k]) % 2)
      BY <2>0, <2>1, Halves
    <3>2. b \div Power[k] = 2 * (b \div Power[k + 1]) + ((b \div Power[k]) % 2)
      BY <2>0, <2>1, Halves
    <3> QED
      BY <2>2, <2>3, <3>1, <3>2
  <2> QED
    BY <1>2, <2>1, <2>4
<1>4. a \div Power[0] = b \div Power[0]
  BY <1>2, <1>3
<1> QED
  BY <1>4, Doubles

(* The bits of the last number below a power of two are all those below the  *)
(* place of the power.                                                       *)
LEMMA MaskBits ==
    ASSUME NEW j \in 0 .. 29, NEW k \in 0 .. 29, k < j
    PROVE  k \in BitsOf(Power[j] - 1)
<1> DEFINE Even(i) == \E m \in Nat \ {0} : Power[i] = Power[k] * (2 * m)
           S       == {i \in k + 1 .. 29 : ~Even(i)}
<1>1. S = {}
  <2> SUFFICES ASSUME S # {} PROVE FALSE
    OBVIOUS
  <2>0. S \subseteq Nat
    OBVIOUS
  <2> HIDE DEF S
  <2>1. PICK n \in S : \A m \in S : n <= m
    BY <2>0, Smallest
  <2> USE DEF S
  <2>2. CASE n = k + 1
    <3>1. Power[n] = Power[k] * (2 * 1)
      BY <2>2, Doubles
    <3> QED
      BY <3>1
  <2>3. CASE n # k + 1
    <3>1. n - 1 \in k + 1 .. 29 /\ n - 1 \in 0 .. 29 /\ (n - 1) + 1 = n
      BY <2>3
    <3>2. PICK m \in Nat \ {0} : Power[n - 1] = Power[k] * (2 * m)
      BY <2>1, <3>1
    <3>3. Power[n] = 2 * Power[n - 1]
      BY <3>1, Doubles
    <3>4. Power[n] = Power[k] * (2 * (2 * m))
      <4> DEFINE P == Power[k]
      <4>1. P \in Nat
        BY Doubles
      <4> HIDE DEF P
      <4>2. 2 * (P * (2 * m)) = P * (2 * (2 * m))
        BY <4>1
      <4> QED
        BY <3>2, <3>3, <4>2 DEF P
    <3>5. 2 * m \in Nat \ {0}
      OBVIOUS
    <3>6. Even(n)
      BY <3>4, <3>5
    <3> QED
      BY <2>1, <3>6
  <2> QED
    BY <2>2, <2>3
<1>2. PICK m \in Nat \ {0} : Power[j] = Power[k] * (2 * m)
  BY <1>1
<1> DEFINE P == Power[k]
<1>3. P \in Nat \ {0}
  BY Doubles
<1> HIDE DEF P
<1>4. P * (2 * m) - 1 = P * (2 * m - 1) + (P - 1)
  BY <1>3
<1>5. \A q \in Nat : \A r \in 0 .. P - 1 : (P * q + r) \div P = q
  BY <1>3
<1>6. (P * (2 * m) - 1) \div P = 2 * m - 1
  BY <1>3, <1>4, <1>5
<1>7. (2 * m - 1) % 2 = 1
  OBVIOUS
<1> QED
  BY <1>2, <1>6, <1>7 DEF BitsOf, P

(* The mask of a table whose size is a power of two leaves its indices.      *)
LEMMA MaskKeepsIndices ==
    ASSUME NEW j \in 0 .. 29, NEW f \in 0 .. Power[j] - 1
    PROVE  And(f, Power[j] - 1) = f
<1>1. Power[j] \in 1 .. Power[30]
  BY PowersGrow
<1>2. ASSUME NEW k \in BitsOf(f)
      PROVE  k \in BitsOf(Power[j] - 1)
  <2>1. k \in 0 .. 29 /\ (f \div Power[k]) % 2 = 1
    BY <1>2 DEF BitsOf
  <2>2. Power[k] <= f
    <3> DEFINE P == Power[k]
    <3>1. P \in Nat \ {0}
      BY <2>1, Doubles
    <3> HIDE DEF P
    <3>2. ASSUME f < P PROVE f \div P = 0
      BY <1>1, <3>1, <3>2
    <3> QED
      BY <1>1, <2>1, <3>1, <3>2 DEF P
  <2>3. k < j
    <3>1. ASSUME ~ (k < j) PROVE FALSE
      <4>1. Power[j] <= Power[k]
        <5>1. j \in 0 .. 30 /\ k \in j .. 30
          BY <2>1, <3>1
        <5> QED
          BY <5>1, PowersOrdered
      <4>2. Power[k] \in Nat
        BY <2>1, Doubles
      <4> QED
        BY <1>1, <2>2, <4>1, <4>2
    <3> QED
      BY <2>1, <3>1
  <2> QED
    BY <2>1, <2>3, MaskBits
<1>3. BitsOf(f) \cap BitsOf(Power[j] - 1) = BitsOf(f)
  BY <1>2
<1>4. And(f, Power[j] - 1) = (CHOOSE c \in 0 .. f : BitsOf(c) = BitsOf(f))
  BY <1>3 DEF And
<1> DEFINE c == CHOOSE c \in 0 .. f : BitsOf(c) = BitsOf(f)
<1>5. c \in 0 .. f /\ BitsOf(c) = BitsOf(f)
  <2>1. f \in 0 .. f
    BY <1>1
  <2> QED
    BY <2>1
<1>6. c \in 0 .. Power[30] - 1 /\ f \in 0 .. Power[30] - 1
  BY <1>1, <1>5, Doubles
<1>7. c = f
  BY <1>5, <1>6, BitsDetermine
<1> QED
  BY <1>4, <1>7

-----------------------------------------------------------------------------
(* Programs.                                                                 *)

(* What ProgramsOK says of one program.                                      *)
LEMMA ProgramFacts ==
    ASSUME NEW p \in Programs
    PROVE  /\ p.n \in 1 .. Power[16] /\ p.n \in Nat
           /\ p.loops \subseteq Nat \ {NoLoop}
           /\ p.raw \in Chunks(p.n, p.loops) /\ p.run \in Chunks(p.n, p.loops)
           /\ \A f, g \in 0 .. p.n - 1 : f # g => p.raw.entry[f] # p.raw.entry[g]
                                                  /\ p.run.entry[f] # p.run.entry[g]
           /\ \A l, m \in p.loops : l # m => p.run.loops[l].at # p.run.loops[m].at
           /\ \A l \in p.loops : p.raw.loops[l].of = p.run.loops[l].of
           /\ p.called \cup MethodsOf(p) \subseteq 0 .. p.n - 1
           /\ p.mode \in {"prearmed", "embedded", "tier1"}
<1>1. ProgramsOK
  BY TieringAssumption
<1>2. p.n \in 1 .. Power[16] /\ p.n \in Nat
  BY <1>1, Doubles DEF ProgramsOK
<1>3. MethodsOf(p) \subseteq 0 .. p.n - 1
  BY <1>1 DEF ProgramsOK, MethodsOf
<1> QED
  BY <1>1, <1>2, <1>3 DEF ProgramsOK

(* The types of a chunk's parts.                                             *)
LEMMA ChunkFacts ==
    ASSUME NEW p \in Programs, NEW chunk \in {p.raw, p.run}
    PROVE  /\ DOMAIN chunk.entry = 0 .. p.n - 1
           /\ \A f \in 0 .. p.n - 1 : chunk.entry[f] \in Nat \ {0}
           /\ \A l \in p.loops : /\ chunk.loops[l].of \in Units(p)
                                 /\ chunk.loops[l].at \in Nat
  BY ProgramFacts DEF Chunks, Units

(* Products of powers of two are powers of two.                              *)
LEMMA PowersMultiply ==
    ASSUME NEW i \in 0 .. 10, NEW k \in 0 .. 17
    PROVE  Power[i] * Power[k] = Power[i + k]
<1> DEFINE S == {m \in 0 .. 17 : Power[i] * Power[m] # Power[i + m]}
<1> SUFFICES ASSUME S # {} PROVE FALSE
  OBVIOUS
<1>0. S \subseteq Nat
  OBVIOUS
<1> HIDE DEF S
<1>1. PICK n \in S : \A m \in S : n <= m
  BY <1>0, Smallest
<1> USE DEF S
<1>2. n # 0
  BY <1>1, Doubles
<1>3. /\ n - 1 \in 0 .. 17 /\ n - 1 \in 0 .. 29 /\ (n - 1) + 1 = n
      /\ i + (n - 1) \in 0 .. 29 /\ (i + (n - 1)) + 1 = i + n
  BY <1>2
<1>4. Power[i] * Power[n - 1] = Power[i + (n - 1)]
  BY <1>1, <1>3
<1>5. Power[n] = 2 * Power[n - 1] /\ Power[i + n] = 2 * Power[i + (n - 1)]
  BY <1>3, Doubles
<1>6. Power[i] \in Nat /\ Power[n - 1] \in Nat
  BY <1>3, Doubles
<1>7. \A a, b \in Nat : a * (2 * b) = 2 * (a * b)
  OBVIOUS
<1> QED
  BY <1>1, <1>4, <1>5, <1>6, <1>7

(* A table keeps the power of two it starts with.                            *)
LEMMA TableIsPower ==
    ASSUME NEW p \in Programs
    PROVE  \E j \in 0 .. 29 : TableSize(p) = Power[j]
<1>1. PICK i \in 0 .. 10 : SlotCount = Power[i]
  BY TieringAssumption
<1>2. CASE p.mode # "prearmed"
  BY <1>1, <1>2 DEF TableSize
<1>3. CASE p.mode = "prearmed"
  <2> DEFINE R == Roomy(p)
             k == CHOOSE k \in R : \A j \in R : k <= j
  <2>1. 17 \in R
    <3>1. SlotCount * Power[17] = Power[i + 17]
      BY <1>1, PowersMultiply
    <3>2. Power[17] <= Power[i + 17]
      <4>1. 17 \in 0 .. 30 /\ i + 17 \in 17 .. 30
        OBVIOUS
      <4> QED
        BY <4>1, PowersOrdered
    <3>3. Power[17] = 2 * Power[16] /\ Power[16] >= 16
      <4>1. Power[17] = 2 * Power[16]
        <5>1. 16 \in 0 .. 29 /\ 16 + 1 = 17
          OBVIOUS
        <5> QED
          BY <5>1, Doubles
      <4>2. Power[4] <= Power[16]
        <5>1. 4 \in 0 .. 30 /\ 16 \in 4 .. 30
          OBVIOUS
        <5> QED
          BY <5>1, PowersOrdered
      <4>3. Power[4] = 16
        BY DEF Power
      <4> QED
        BY <4>1, <4>2, <4>3
    <3>4. p.n \in 1 .. Power[16]
      BY ProgramFacts
    <3>5. Power[16] \in Nat /\ Power[17] \in Nat /\ Power[i + 17] \in Nat
      BY Doubles
    <3>6. SlotCount * Power[17] >= p.n + 16
      BY <3>1, <3>2, <3>3, <3>4, <3>5
    <3> QED
      BY <3>6 DEF Roomy
  <2>2. R \subseteq Nat
    BY DEF Roomy
  <2>3. \E n \in R : \A j \in R : n <= j
    <3> HIDE DEF R
    <3> QED
      BY <2>1, <2>2, Smallest
  <2>4. k \in R
    BY <2>3
  <2>5. k \in 0 .. 17
    BY <2>4 DEF Roomy
  <2>6. TableSize(p) = SlotCount * Power[k]
    BY <1>3 DEF TableSize
  <2> HIDE DEF k
  <2>7. TableSize(p) = Power[i + k]
    BY <1>1, <2>5, <2>6, PowersMultiply
  <2>8. i + k \in 0 .. 29
    BY <2>5
  <2> QED
    BY <2>7, <2>8
<1> QED
  BY <1>2, <1>3

(* In a program that lies well functions are told by their indices and by    *)
(* the addresses of either chunk, and all of these are in the table.         *)
LEMMA PlacedFacts ==
    ASSUME NEW p \in Programs, WellPlaced(p)
    PROVE  /\ TableSize(p) \in Nat \ {0}
           /\ \A f \in 0 .. p.n - 1 :
                 /\ f \in 0 .. TableSize(p) - 1
                 /\ p.raw.entry[f] \in p.n .. TableSize(p) - 1
                 /\ p.run.entry[f] \in p.n .. TableSize(p) - 1
           /\ \A u, v \in Units(p) : \A c, d \in {p.raw, p.run} :
                 IpOf(c, u) = IpOf(d, v) => u = v
<1>1. TableSize(p) \in Nat \ {0}
  BY TableIsPower, Doubles
<1>2. \A f \in 0 .. p.n - 1 :
         {p.raw.entry[f], p.run.entry[f]} \subseteq p.n .. TableSize(p) - 1
  BY DEF WellPlaced
<1>3. p.n \in Nat
  BY ProgramFacts
<1>4. ASSUME NEW u \in Units(p), NEW v \in Units(p),
             NEW c \in {p.raw, p.run}, NEW d \in {p.raw, p.run}, IpOf(c, u) = IpOf(d, v)
      PROVE  u = v
  <2>1. CASE u = Top \/ v = Top
    <3>1. \A w \in 0 .. p.n - 1 : c.entry[w] # 0 /\ d.entry[w] # 0
      BY ChunkFacts
    <3> QED
      BY <1>4, <2>1, <3>1 DEF IpOf, Units
  <2>2. CASE u # Top /\ v # Top
    <3>1. u \in 0 .. p.n - 1 /\ v \in 0 .. p.n - 1 /\ c.entry[u] = d.entry[v]
      BY <1>4, <2>2 DEF IpOf, Units
    <3>2. \A f, g \in 0 .. p.n - 1 : f # g => /\ p.raw.entry[f] # p.raw.entry[g]
                                              /\ p.run.entry[f] # p.run.entry[g]
                                              /\ p.raw.entry[f] # p.run.entry[g]
      BY ProgramFacts DEF WellPlaced
    <3>3. CASE u # v
      <4>1. /\ p.raw.entry[u] # p.raw.entry[v] /\ p.run.entry[u] # p.run.entry[v]
            /\ p.raw.entry[u] # p.run.entry[v] /\ p.raw.entry[v] # p.run.entry[u]
        BY <3>1, <3>2, <3>3
      <4>2. (c = p.raw \/ c = p.run) /\ (d = p.raw \/ d = p.run)
        OBVIOUS
      <4> QED
        BY <3>1, <4>1, <4>2
    <3> QED
      BY <3>3
  <2> QED
    BY <2>1, <2>2
<1>5. \A f \in 0 .. p.n - 1 :
         /\ f \in 0 .. TableSize(p) - 1
         /\ p.raw.entry[f] \in p.n .. TableSize(p) - 1
         /\ p.run.entry[f] \in p.n .. TableSize(p) - 1
  BY <1>1, <1>2, <1>3
<1> QED
  BY <1>1, <1>4, <1>5

(* compile_tier2() finds the index of a function; the top level it takes for *)
(* function 0.                                                               *)
LEMMA IndexFacts ==
    ASSUME NEW p \in Programs, NEW chunk \in {p.raw, p.run}
    PROVE  /\ \A f \in 0 .. p.n - 1 : IndexOf(chunk, chunk.entry[f]) = f
           /\ IndexOf(chunk, 0) = 0
<1>1. /\ DOMAIN chunk.entry = 0 .. p.n - 1
      /\ \A f \in 0 .. p.n - 1 : chunk.entry[f] \in Nat \ {0}
      /\ \A f, g \in 0 .. p.n - 1 : f # g => chunk.entry[f] # chunk.entry[g]
  BY ChunkFacts, ProgramFacts
<1> QED
  BY <1>1 DEF IndexOf

-----------------------------------------------------------------------------
(* States.                                                                   *)

Sound == prog \in Programs /\ WellPlaced(prog) /\ IInv

HotSlots == [native : Codes, count : Nat, limit : Nat, tier : Nat]

(* The VM reaches a function's own slot.                                     *)
LEMMA SlotIsIndex ==
    ASSUME Sound, phase # "arm", NEW f \in Functions
    PROVE  Slot(f) = f /\ f \in Table
<1>1. view.size = TableSize(prog)
  BY DEF Sound, IInv, ViewFollows
<1>2. PICK j \in 0 .. 29 : TableSize(prog) = Power[j]
  BY TableIsPower DEF Sound
<1>3. f \in 0 .. TableSize(prog) - 1
  BY PlacedFacts DEF Sound, Functions
<1>4. And(f, Power[j] - 1) = f
  BY <1>2, <1>3, MaskKeepsIndices
<1> QED
  BY <1>1, <1>2, <1>3, <1>4 DEF Slot, Table

(* Code that is written to a slot of the table.                              *)
LEMMA WithCodeFacts ==
    ASSUME NEW table, DOMAIN table = Table, \A i \in Table : table[i] \in HotSlots,
           NEW i \in Table, NEW code \in Codes
    PROVE  /\ DOMAIN WithCode(table, i, code) = Table
           /\ \A j \in Table : WithCode(table, i, code)[j] \in HotSlots
           /\ \A j \in Table : WithCode(table, i, code)[j].native
                                  = IF j = i THEN code ELSE table[j].native
<1>1. WithCode(table, i, code)
        = [table EXCEPT ![i] = [[table[i] EXCEPT !.native = code] EXCEPT !.tier = 2]]
  BY DEF WithCode, Grown
<1>2. /\ [[table[i] EXCEPT !.native = code] EXCEPT !.tier = 2] \in HotSlots
      /\ [[table[i] EXCEPT !.native = code] EXCEPT !.tier = 2].native = code
  BY DEF HotSlots
<1> QED
  BY <1>1, <1>2

(* The object compile_tier2() makes.                                         *)
LEMMA Tier2ObjectFacts ==
    ASSUME Sound, NEW chunk \in {prog.raw, prog.run}, NEW u \in Units(prog)
    PROVE  LET obj == Tier2Object(chunk, u)
           IN  /\ obj \in Objects /\ obj.unit = u
               /\ Entry(obj) \in Codes /\ Entry(obj).id = obj.id
               /\ Entry(obj).unit = u /\ Entry(obj).loop = NoLoop
<1> DEFINE obj == Tier2Object(chunk, u)
           loops == {[at |-> chunk.loops[l].at, loop |-> l] :
                        l \in {m \in {l \in prog.loops : chunk.loops[l].tier2} :
                                  chunk.loops[m].of = u}}
<1>1. obj = [status |-> "compiled", id |-> builds + 1, unit |-> u, loops |-> loops]
  BY DEF Tier2Object, Built
<1>2. loops \subseteq [at : Nat, loop : prog.loops]
  BY ChunkFacts DEF Sound
<1>3. builds + 1 \in Nat
  BY DEF Sound, IInv, Shapes
<1> HIDE DEF loops
<1>4. obj \in Objects /\ obj.unit = u /\ obj.id \in Nat
  BY <1>1, <1>2, <1>3 DEF Objects
<1> HIDE DEF obj
<1>5. Entry(obj) = [id |-> obj.id, unit |-> u, loop |-> NoLoop]
  BY <1>4 DEF Entry
<1>6. Entry(obj) \in Codes /\ Entry(obj).id = obj.id /\ Entry(obj).unit = u
      /\ Entry(obj).loop = NoLoop
  BY <1>4, <1>5 DEF Codes, NoLoop
<1> QED
  BY <1>4, <1>6 DEF obj

(* compile_tier2() fills the slot of the function, or slot 0 for the top     *)
(* level, and no other that a function's index leads to.                     *)
LEMMA Tier2TableFacts ==
    ASSUME Sound, NEW chunk \in {prog.raw, prog.run}, NEW u \in Units(prog),
           NEW table, DOMAIN table = Table, \A i \in Table : table[i] \in HotSlots
    PROVE  LET new == Tier2Table(table, chunk, u)
           IN  /\ DOMAIN new = Table
               /\ \A i \in Table : new[i] \in HotSlots
               /\ \A f \in Functions :
                     new[f].native = IF f = u \/ (u = Top /\ f = 0)
                                     THEN Entry(Tier2Object(chunk, u)) ELSE table[f].native
<1> DEFINE code  == Entry(Tier2Object(chunk, u))
           ip    == IpOf(chunk, u)
           index == IndexOf(chunk, ip)
           once  == WithCode(table, index, code)
           new   == WithCode(once, ip, code)
<1>0. code \in Codes
  BY Tier2ObjectFacts
<1>1. /\ TableSize(prog) \in Nat \ {0}
      /\ \A f \in Functions : f \in Table
      /\ prog.n \in Nat \ {0}
  BY PlacedFacts, ProgramFacts DEF Sound, Functions, Table
<1>4. /\ index \in Table /\ ip \in Table
      /\ \A f \in Functions : (f = ip \/ f = index) <=> (f = u \/ (u = Top /\ f = 0))
  <2>1. CASE u = Top
    <3>1. ip = 0 /\ index = 0
      BY <2>1, IndexFacts DEF IpOf, Sound
    <3>2. 0 \in Table
      BY <1>1 DEF Table
    <3> QED
      BY <2>1, <3>1, <3>2 DEF Functions, Top
  <2>2. CASE u # Top
    <3>1. u \in Functions
      BY <2>2 DEF Units, Functions
    <3>2. ip \in prog.n .. TableSize(prog) - 1
      BY <2>2, <3>1, PlacedFacts DEF Sound, IpOf, Functions
    <3>3. index = u
      BY <2>2, <3>1, IndexFacts DEF Sound, IpOf, Functions
    <3>4. ip \in Table /\ ip \notin Functions
      BY <1>1, <3>2 DEF Table, Functions
    <3> QED
      BY <1>1, <2>2, <3>1, <3>3, <3>4
  <2> QED
    BY <2>1, <2>2
<1>5. Tier2Table(table, chunk, u) = new
  BY DEF Tier2Table
<1> HIDE DEF code, ip, index
<1>6. /\ DOMAIN once = Table
      /\ \A j \in Table : once[j] \in HotSlots
      /\ \A j \in Table : once[j].native = IF j = index THEN code ELSE table[j].native
  BY <1>0, <1>4, WithCodeFacts
<1> HIDE DEF once
<1>7. /\ DOMAIN new = Table
      /\ \A j \in Table : new[j] \in HotSlots
      /\ \A j \in Table : new[j].native = IF j = ip THEN code ELSE once[j].native
  BY <1>0, <1>4, <1>6, WithCodeFacts
<1> HIDE DEF new
<1>8. \A f \in Functions :
         new[f].native = IF f = u \/ (u = Top /\ f = 0) THEN code ELSE table[f].native
  BY <1>1, <1>4, <1>6, <1>7
<1> QED
  BY <1>5, <1>7, <1>8 DEF code

-----------------------------------------------------------------------------
(* Code objects.                                                             *)

(* Code stays where it was found when an object is stored, unless the object *)
(* replaces another of the same unit.                                        *)
LEMMA BackedKept ==
    ASSUME Sound, NEW chunk \in {prog.raw, prog.run}, NEW u \in Units(prog), NEW obj,
           cache' = Put(IpOf(chunk, u), obj), NEW code, Backed(code),
           \/ code.unit # u
           \/ IpOf(chunk, u) \notin DOMAIN cache
           \/ obj = cache[IpOf(chunk, u)]
    PROVE  Backed(code)'
<1> DEFINE at == IpOf(chunk, u)
<1>1. PICK ip \in DOMAIN cache : cache[ip].id = code.id /\ cache[ip].unit = code.unit
  BY DEF Backed
<1>2. CASE ip = at /\ obj # cache[at]
  <2>1. cache[at].unit = u
    BY <1>1, <1>2 DEF Sound, IInv, ObjectsAtHome
  <2> QED
    BY <1>1, <1>2, <2>1
<1>3. CASE ip # at \/ obj = cache[at]
  <2>1. ip \in DOMAIN cache' /\ cache'[ip] = cache[ip]
    BY <1>1, <1>3 DEF Put
  <2> QED
    BY <1>1, <2>1 DEF Backed
<1> QED
  BY <1>2, <1>3

(* Code of an object that is stored is found.                                *)
LEMMA NewBacked ==
    ASSUME NEW ip, NEW obj, cache' = Put(ip, obj),
           NEW code, code.id = obj.id, code.unit = obj.unit
    PROVE  Backed(code)'
  BY DEF Put, Backed

(* Code that is found has its buffer.                                        *)
LEMMA BackedLives ==
    ASSUME Sound, NEW code, Backed(code)
    PROVE  Live(code)
  BY DEF Sound, IInv, ObjectsAtHome, Objects, Backed, Live

(* An object of a unit, stored at the unit's address in either chunk.        *)
LEMMA HomeKept ==
    ASSUME Sound, UNCHANGED prog, NEW chunk \in {prog.raw, prog.run}, NEW u \in Units(prog),
           NEW obj \in Objects, obj.unit = u, cache' = Put(IpOf(chunk, u), obj),
           IpOf(chunk, u) = IpOf(prog.run, u) => HasEntriesOf(obj, u)
    PROVE  ObjectsAtHome'
<1> DEFINE at == IpOf(chunk, u)
<1>1. /\ DOMAIN cache' = DOMAIN cache \cup {at}
      /\ \A ip \in DOMAIN cache' : cache'[ip] = IF ip = at THEN obj ELSE cache[ip]
  BY DEF Put
<1>2. \A v \in Units(prog) : \A d \in {prog.raw, prog.run} : IpOf(d, v) = at => v = u
  BY PlacedFacts DEF Sound
<1>3. ObjectsAtHome
  BY DEF Sound, IInv
<1> HIDE DEF at
<1>4. \A ip \in DOMAIN cache' : cache'[ip] \in Objects'
  BY <1>1, <1>3 DEF ObjectsAtHome, Objects
<1>5. ASSUME NEW v \in Units(prog),
             NEW ip \in {IpOf(prog.raw, v), IpOf(prog.run, v)} \cap DOMAIN cache'
      PROVE  cache'[ip].unit = v
  BY <1>1, <1>2, <1>3 DEF ObjectsAtHome
<1>6. ASSUME NEW v \in Units(prog), IpOf(prog.run, v) \in DOMAIN cache'
      PROVE  HasEntriesOf(cache'[IpOf(prog.run, v)], v)
  <2>1. CASE IpOf(prog.run, v) = at
    <3>1. v = u
      BY <1>2, <2>1
    <3> QED
      BY <1>1, <1>6, <2>1, <3>1 DEF at
  <2>2. CASE IpOf(prog.run, v) # at
    <3>1. IpOf(prog.run, v) \in DOMAIN cache
          /\ cache'[IpOf(prog.run, v)] = cache[IpOf(prog.run, v)]
      BY <1>1, <1>6, <2>2
    <3> QED
      BY <1>3, <3>1 DEF ObjectsAtHome
  <2> QED
    BY <2>1, <2>2
<1>7. \A o, v : HasEntriesOf(o, v)' <=> HasEntriesOf(o, v)
  BY DEF HasEntriesOf, Wanted
<1> QED
  BY <1>4, <1>5, <1>6, <1>7 DEF ObjectsAtHome

(* A function that runs where it was compiled before the run has its object. *)
LEMMA SameCodeThere ==
    ASSUME Sound, phase = "run", NEW u \in Units(prog), SameCode(prog, u)
    PROVE  IpOf(prog.run, u) \in DOMAIN cache
<1>1. prog.mode = "prearmed" /\ u # Top /\ prog.raw.entry[u] = prog.run.entry[u]
  BY DEF SameCode
<1>2. u \in 0 .. armed - 1
  BY <1>1 DEF Units, Sound, IInv, ArmedFirst
<1>3. prog.raw.entry[u] \in DOMAIN cache
  BY <1>1, <1>2 DEF Sound, IInv, ArmedFirst
<1> QED
  BY <1>1, <1>3 DEF IpOf

(* What compile_function() leaves at a unit's address.                       *)
LEMMA BaselineFacts ==
    ASSUME Sound, phase = "run", NEW u \in Units(prog)
    PROVE  LET obj == Baseline(u)
               ip  == IpOf(prog.run, u)
           IN  /\ ip \in DOMAIN cache => obj = cache[ip]
               /\ obj.status \in {"compiled", "failed"}
               /\ obj.status = "compiled" =>
                     obj \in Objects /\ obj.unit = u /\ HasEntriesOf(obj, u)
               /\ obj.status = "failed" => ip \notin DOMAIN cache /\ u \notin prog.run.baseline
<1> DEFINE obj == Baseline(u)
           ip  == IpOf(prog.run, u)
           given == {l \in prog.loops : prog.run.loops[l].tier1}
           loops == {[at |-> prog.run.loops[l].at, loop |-> l] :
                        l \in {m \in given : prog.run.loops[m].of = u}}
<1>1. CASE ip \in DOMAIN cache
  <2>1. ObjectAt(ip) = cache[ip] /\ cache[ip] \in Objects
    BY <1>1 DEF ObjectAt, Sound, IInv, ObjectsAtHome
  <2>2. obj = cache[ip] /\ obj.status = "compiled"
    BY <2>1 DEF Baseline, Objects
  <2>3. obj.unit = u /\ HasEntriesOf(obj, u)
    BY <1>1, <2>2 DEF Sound, IInv, ObjectsAtHome
  <2> QED
    BY <2>1, <2>2, <2>3
<1>2. CASE ip \notin DOMAIN cache /\ u \in prog.run.baseline
  <2>1. obj = [status |-> "compiled", id |-> builds + 1, unit |-> u, loops |-> loops]
    BY <1>2 DEF Baseline, ObjectAt, NoObject, Built
  <2>2. loops \subseteq [at : Nat, loop : prog.loops]
    BY ChunkFacts DEF Sound
  <2>3. loops \subseteq Wanted(u)
    BY DEF Wanted, LoopsIn
  <2>4. ASSUME Settled(prog, u) PROVE loops = Wanted(u)
    <3>1. ~ SameCode(prog, u)
      BY <1>2, SameCodeThere
    <3>2. \A l \in LoopsIn(prog, u) : prog.run.loops[l].tier1
      BY <1>2, <2>4, <3>1 DEF Settled
    <3> QED
      BY <3>2 DEF Wanted, LoopsIn
  <2>5. ASSUME Unshared(prog, u) PROVE loops = {}
    BY <2>5 DEF Unshared, LoopsIn
  <2> HIDE DEF loops
  <2>6. builds + 1 \in Nat
    BY DEF Sound, IInv, Shapes
  <2>7. obj \in Objects /\ obj.unit = u /\ obj.loops = loops /\ obj.status = "compiled"
    BY <2>1, <2>2, <2>6 DEF Objects
  <2>8. HasEntriesOf(obj, u)
    BY <2>3, <2>4, <2>5, <2>7 DEF HasEntriesOf
  <2> QED
    BY <1>2, <2>7, <2>8
<1>3. CASE ip \notin DOMAIN cache /\ u \notin prog.run.baseline
  <2>1. obj.status = "failed"
    BY <1>3 DEF Baseline, ObjectAt, NoObject
  <2> QED
    BY <1>3, <2>1
<1> QED
  BY <1>1, <1>2, <1>3

(* What compile_tier2() makes when the baseline compiler gave up, or of a    *)
(* unit whose code only its own slot keeps.                                  *)
LEMMA Tier2Entries ==
    ASSUME Sound, phase = "run", NEW u \in Units(prog),
           Unshared(prog, u) \/ Baseline(u).status = "failed"
    PROVE  HasEntriesOf(Tier2Object(prog.run, u), u)
<1> DEFINE loops == {[at |-> prog.run.loops[l].at, loop |-> l] :
                        l \in {m \in {l \in prog.loops : prog.run.loops[l].tier2} :
                                  prog.run.loops[m].of = u}}
<1>1. Tier2Object(prog.run, u).loops = loops
  BY DEF Tier2Object, Built
<1>2. loops \subseteq Wanted(u)
  BY DEF Wanted, LoopsIn
<1>3. ASSUME Unshared(prog, u) PROVE loops = {}
  BY <1>3 DEF Unshared, LoopsIn
<1>4. ASSUME Settled(prog, u) PROVE loops = Wanted(u)
  <2>1. CASE Unshared(prog, u)
    <3>1. LoopsIn(prog, u) = {}
      BY <1>4, <2>1 DEF Settled, Unshared
    <3> QED
      BY <1>2, <3>1 DEF Wanted
  <2>2. CASE Baseline(u).status = "failed"
    <3>1. IpOf(prog.run, u) \notin DOMAIN cache /\ u \notin prog.run.baseline
      BY <2>2, BaselineFacts
    <3>2. ~ SameCode(prog, u)
      BY <3>1, SameCodeThere
    <3>3. \A l \in LoopsIn(prog, u) : prog.run.loops[l].tier2
      BY <1>4, <3>1, <3>2 DEF Settled
    <3> QED
      BY <3>3 DEF Wanted, LoopsIn
  <2> QED
    BY <2>1, <2>2
<1> QED
  BY <1>1, <1>2, <1>3, <1>4 DEF HasEntriesOf

(* The entry of a loop is found in an object of its unit, and there is one   *)
(* if nothing is built twice.                                                *)
LEMMA OsrFacts ==
    ASSUME Sound, NEW u \in Units(prog), NEW obj \in Objects, obj.unit = u,
           HasEntriesOf(obj, u), NEW l \in LoopsIn(prog, u)
    PROVE  /\ \A code \in OsrEntry(obj, prog.run.loops[l].at) :
                 /\ code \in Codes /\ code.id = obj.id /\ code.unit = u /\ code.loop = l
                 /\ ~ Unshared(prog, u)
           /\ Settled(prog, u) => OsrEntry(obj, prog.run.loops[l].at) # {}
<1> DEFINE at == prog.run.loops[l].at
<1>0. /\ l \in prog.loops /\ prog.loops \subseteq Nat
      /\ \A m \in prog.loops : m # l => prog.run.loops[m].at # at
  BY ProgramFacts DEF LoopsIn, Sound
<1>1. obj.status = "compiled" /\ obj.id \in Nat
  BY DEF Objects
<1>2. ASSUME NEW code \in OsrEntry(obj, at)
      PROVE  /\ code \in Codes /\ code.id = obj.id /\ code.unit = u /\ code.loop = l
             /\ ~ Unshared(prog, u)
  <2>1. PICK e \in obj.loops : /\ e.at = at
                               /\ code = [id |-> obj.id, unit |-> obj.unit, loop |-> e.loop]
    BY DEF OsrEntry
  <2>2. PICK m \in LoopsIn(prog, u) : e = [at |-> prog.run.loops[m].at, loop |-> m]
    BY <2>1 DEF HasEntriesOf, Wanted
  <2>3. m = l
    BY <1>0, <2>1, <2>2 DEF LoopsIn
  <2> QED
    BY <1>0, <1>1, <2>1, <2>2, <2>3 DEF Codes, HasEntriesOf
<1>3. ASSUME Settled(prog, u) PROVE OsrEntry(obj, at) # {}
  <2> DEFINE e == [at |-> at, loop |-> l]
  <2>1. e \in obj.loops
    BY <1>3 DEF HasEntriesOf, Wanted
  <2>2. e.at = at
    OBVIOUS
  <2> HIDE DEF e
  <2>3. [id |-> obj.id, unit |-> obj.unit, loop |-> e.loop] \in OsrEntry(obj, at)
    BY <1>1, <2>1, <2>2 DEF OsrEntry
  <2> QED
    BY <2>3
<1> QED
  BY <1>2, <1>3

-----------------------------------------------------------------------------
(* Steps.                                                                    *)

(* A program that lies well does so as long as it is the program.            *)
LEMMA ProgramStays ==
    ASSUME Sound, UNCHANGED prog
    PROVE  /\ (prog \in Programs)' /\ WellPlaced(prog)'
           /\ Table' = Table /\ Codes' = Codes
  BY DEF Sound, WellPlaced, Table, Codes

(* What a step has no effect on if it leaves the tables alone.               *)
LEMMA TablesKept ==
    ASSUME Sound, UNCHANGED <<prog, cache>>
    PROVE  /\ ObjectsAtHome'
           /\ UNCHANGED hot => SlotsRight'
           /\ UNCHANGED lhot => LoopsRight'
           /\ UNCHANGED ic => SitesRight'
<1>1. \A c : Backed(c)' <=> Backed(c)
  BY DEF Backed
<1>2. \A c, u, l : CodeOf(c, u, l)' <=> CodeOf(c, u, l)
  BY <1>1 DEF CodeOf
<1>3. ObjectsAtHome'
  BY DEF Sound, IInv, ObjectsAtHome, Objects, HasEntriesOf, Wanted
<1>4. ASSUME UNCHANGED hot PROVE SlotsRight'
  BY <1>2, <1>4 DEF Sound, IInv, SlotsRight
<1>5. ASSUME UNCHANGED lhot PROVE LoopsRight'
  BY <1>2, <1>5 DEF Sound, IInv, LoopsRight
<1>6. ASSUME UNCHANGED ic PROVE SitesRight'
  BY <1>2, <1>6 DEF Sound, IInv, SitesRight
<1> QED
  BY <1>3, <1>4, <1>5, <1>6

(* What storing an object has no effect on: all code that was found before,  *)
(* but for the unit's own slot if it replaces an object nothing else keeps.  *)
LEMMA StoreFacts ==
    ASSUME Sound, UNCHANGED prog, NEW chunk \in {prog.raw, prog.run}, NEW u \in Units(prog),
           NEW obj \in Objects, obj.unit = u, Store(chunk, u, obj),
           IpOf(chunk, u) = IpOf(prog.run, u) => HasEntriesOf(obj, u),
           \/ Unshared(prog, u)
           \/ IpOf(chunk, u) \notin DOMAIN cache
           \/ obj = cache[IpOf(chunk, u)]
    PROVE  /\ ObjectsAtHome' /\ builds' \in Nat
           /\ DOMAIN cache' = DOMAIN cache \cup {IpOf(chunk, u)}
           /\ \A c : c.id = obj.id /\ c.unit = u => Backed(c)'
           /\ \A f \in prog.called \cup MethodsOf(prog) :
                 \/ CodeOf(hot[f].native, f, NoLoop) /\ Unshared(prog, u) /\ f = u
                 \/ \A c : c = hot[f].native => CodeOf(c, f, NoLoop)'
           /\ \A l \in prog.loops :
                 \A c : c = lhot[LoopSlot(prog.run.loops[l].at)].osr =>
                           CodeOf(c, prog.run.loops[l].of, l)'
           /\ UNCHANGED ic => SitesRight'
<1>0. cache' = Put(IpOf(chunk, u), obj)
  BY DEF Store
<1>1. ObjectsAtHome'
  BY <1>0, HomeKept
<1>2. builds' \in Nat
  BY DEF Store, Objects, Sound, IInv, Shapes
<1>3. DOMAIN cache' = DOMAIN cache \cup {IpOf(chunk, u)}
  BY <1>0 DEF Put
<1>4. \A c : c.id = obj.id /\ c.unit = u => Backed(c)'
  BY <1>0, NewBacked
<1>5. ASSUME NEW c, NEW v, NEW l, CodeOf(c, v, l), v # u \/ ~ Unshared(prog, u) \/ c = NoCode
      PROVE  CodeOf(c, v, l)'
  <2>1. CASE c = NoCode
    BY <2>1 DEF CodeOf
  <2>2. CASE c # NoCode
    <3>1. Backed(c) /\ c.unit = v /\ c.loop = l
      BY <1>5, <2>2 DEF CodeOf
    <3>2. Backed(c)'
      BY <1>0, <1>5, <2>2, <3>1, BackedKept
    <3> QED
      BY <3>1, <3>2 DEF CodeOf
  <2> QED
    BY <2>1, <2>2
<1>6. ASSUME NEW f \in prog.called \cup MethodsOf(prog)
      PROVE  \/ CodeOf(hot[f].native, f, NoLoop) /\ Unshared(prog, u) /\ f = u
             \/ \A c : c = hot[f].native => CodeOf(c, f, NoLoop)'
  <2>1. CodeOf(hot[f].native, f, NoLoop)
    BY DEF Sound, IInv, SlotsRight
  <2> QED
    BY <1>5, <2>1
<1>7. ASSUME NEW l \in prog.loops, NEW c, c = lhot[LoopSlot(prog.run.loops[l].at)].osr
      PROVE  CodeOf(c, prog.run.loops[l].of, l)'
  <2>1. CodeOf(c, prog.run.loops[l].of, l) /\ (Unshared(prog, prog.run.loops[l].of) => c = NoCode)
    BY <1>7 DEF Sound, IInv, LoopsRight
  <2> QED
    BY <1>5, <2>1
<1>8. ASSUME UNCHANGED ic PROVE SitesRight'
  <2> SUFFICES ASSUME NEW s \in DOMAIN ic, NEW r \in DOMAIN ic[s]
               PROVE  CodeOf(ic[s][r], prog.sites[s][r], NoLoop)'
    BY <1>8 DEF SitesRight
  <2> DEFINE c == ic[s][r]
             v == prog.sites[s][r]
  <2>1. CodeOf(c, v, NoLoop)
    BY DEF Sound, IInv, SitesRight
  <2>2. v \in MethodsOf(prog)
    BY DEF Sound, IInv, Shapes, MethodsOf, Image
  <2>3. v # u \/ ~ Unshared(prog, u)
    BY <2>2 DEF Unshared
  <2>4. c' = c /\ v' = v
    BY <1>8
  <2>5. \A d : d = c => CodeOf(d, v, NoLoop)'
    <3> HIDE DEF c, v
    <3>1. \A w : w = v => \A d : d = c => CodeOf(d, w, NoLoop)'
      BY <1>5, <2>1, <2>3
    <3> QED
      BY <3>1, <2>4 DEF CodeOf
  <2> QED
    BY <2>4, <2>5
<1> QED
  BY <1>1, <1>2, <1>3, <1>4, <1>6, <1>7, <1>8

LEMMA StartSound ==
    ASSUME Init, WellPlaced(prog)
    PROVE  Sound
<1>1. prog \in Programs
  BY DEF Init
<1>2. NoCode \in Codes
  BY DEF NoCode, Codes, Units, NoLoop
<1>3. FreshFn \in HotSlots /\ FreshLoop \in [osr : Codes, count : Nat, limit : Nat, tier : Nat]
  BY <1>2, TieringAssumption DEF FreshFn, FreshLoop, HotSlots
<1>4. Shapes
  <2>1. armed \in 0 .. prog.n
    BY <1>1, ProgramFacts DEF Init
  <2>2. DOMAIN hot = Table /\ \A i \in Table : hot[i] = FreshFn
    BY DEF Init, Table
  <2>3. DOMAIN lhot = 0 .. LoopSlots - 1 /\ \A i \in DOMAIN lhot : lhot[i] = FreshLoop
    BY DEF Init
  <2>4. DOMAIN ic = DOMAIN prog.sites /\ \A s \in DOMAIN ic : DOMAIN ic[s] = {}
    BY DEF Init
  <2> QED
    BY <1>3, <2>1, <2>2, <2>3, <2>4 DEF Init, Shapes, HotSlots
<1>5. ViewFollows /\ ArmedFirst
  BY <1>1, ProgramFacts DEF Init, ViewFollows, ArmedFirst
<1>6. ObjectsAtHome
  BY DEF Init, ObjectsAtHome
<1>7. SlotsRight
  <2>1. \A f \in prog.called \cup MethodsOf(prog) : f \in Table
    BY <1>1, ProgramFacts, PlacedFacts DEF Table
  <2>2. \A i \in Table : hot[i].native = NoCode
    BY DEF Init, Table, FreshFn
  <2> QED
    BY <2>1, <2>2 DEF SlotsRight, CodeOf
<1>8. LoopsRight
  <2>1. \A i \in 0 .. LoopSlots - 1 : lhot[i].osr = NoCode
    BY DEF Init, FreshLoop
  <2>2. \A l \in prog.loops : LoopSlot(prog.run.loops[l].at) \in 0 .. LoopSlots - 1
    BY <1>1, ChunkFacts, TieringAssumption DEF LoopSlot
  <2> QED
    BY <2>1, <2>2 DEF LoopsRight, CodeOf
<1>9. SitesRight
  BY DEF Init, SitesRight
<1>10. EntersTheRightCode /\ NothingDangles
  BY DEF Init, EntersTheRightCode, NothingDangles, NoEntry
<1> QED
  BY <1>1, <1>4, <1>5, <1>6, <1>7, <1>8, <1>9, <1>10 DEF Sound, IInv

(* The loop slots a program's loops lead to, each its own.                   *)
LEMMA LoopSlotFacts ==
    ASSUME NEW p \in Programs, WellPlaced(p)
    PROVE  /\ \A l \in p.loops : LoopSlot(p.run.loops[l].at) \in 0 .. LoopSlots - 1
           /\ \A l, m \in p.loops :
                 l # m => LoopSlot(p.run.loops[l].at) # LoopSlot(p.run.loops[m].at)
<1>1. \A l \in p.loops : LoopSlot(p.run.loops[l].at) \in 0 .. LoopSlots - 1
  BY ChunkFacts, TieringAssumption DEF LoopSlot
<1> QED
  BY <1>1 DEF WellPlaced

LEMMA PreArmStep ==
    ASSUME Sound, PreArm
    PROVE  Sound'
<1> DEFINE u   == armed
           obj == Tier2Object(prog.raw, u)
           ip  == IpOf(prog.raw, u)
           new == Tier2Table(hot, prog.raw, u)
<1>1. /\ phase = "arm" /\ armed < prog.n /\ armed \in Nat
      /\ prog.mode = "prearmed" /\ prog.n \in Nat
      /\ UNCHANGED <<prog, phase, lhot, ic, mega, frames, entered>>
      /\ armed' = armed + 1
      /\ Store(prog.raw, u, obj) /\ SetTable(new)
  BY ProgramFacts DEF PreArm, Sound, IInv, ArmedFirst, Shapes
<1>2. u \in Units(prog) /\ u \in Functions /\ u # Top
  BY <1>1 DEF Units, Functions, Top
<1>3. /\ (prog \in Programs)' /\ WellPlaced(prog)' /\ Table' = Table /\ Codes' = Codes
  BY <1>1, ProgramStays
<1>4. obj \in Objects /\ obj.unit = u
  BY <1>2, Tier2ObjectFacts
<1>5. ip = prog.raw.entry[u] /\ ip \notin DOMAIN cache
  <2>1. \A f \in 0 .. armed - 1 : f \in 0 .. prog.n - 1 /\ f # u
    BY <1>1
  <2>2. \A f \in 0 .. armed - 1 : prog.raw.entry[f] # prog.raw.entry[u]
    BY <1>2, <2>1, ProgramFacts DEF Sound, Functions
  <2> QED
    BY <1>1, <1>2, <2>2 DEF IpOf, Sound, IInv, ArmedFirst
<1>6. ASSUME ip = IpOf(prog.run, u) PROVE HasEntriesOf(obj, u)
  <2> DEFINE loops == {[at |-> prog.raw.loops[l].at, loop |-> l] :
                          l \in {m \in {l \in prog.loops : prog.raw.loops[l].tier2} :
                                    prog.raw.loops[m].of = u}}
  <2>1. obj.loops = loops
    BY DEF Tier2Object, Built
  <2>2. SameCode(prog, u)
    BY <1>1, <1>2, <1>6 DEF SameCode, IpOf
  <2>3. \A l \in prog.loops : prog.raw.loops[l].of = u <=> l \in LoopsIn(prog, u)
    BY ProgramFacts DEF LoopsIn, Sound
  <2>4. Settled(prog, u) \/ Unshared(prog, u)
    BY <1>2 DEF Sound, WellPlaced
  <2>5. ASSUME Settled(prog, u) PROVE loops = Wanted(u)
    <3>1. \A l \in LoopsIn(prog, u) :
             prog.raw.loops[l].tier2 /\ prog.raw.loops[l].at = prog.run.loops[l].at
      BY <2>2, <2>5 DEF Settled
    <3>2. \A l \in LoopsIn(prog, u) : l \in prog.loops
      BY DEF LoopsIn
    <3> QED
      BY <2>3, <3>1, <3>2 DEF Wanted
  <2>6. ASSUME Unshared(prog, u) PROVE loops = {}
    BY <2>3, <2>6 DEF Unshared
  <2> QED
    BY <2>1, <2>4, <2>5, <2>6 DEF HasEntriesOf
<1>7. /\ DOMAIN hot = Table /\ \A i \in Table : hot[i] \in HotSlots
  BY DEF Sound, IInv, Shapes, HotSlots
<1>8. /\ DOMAIN new = Table /\ \A i \in Table : new[i] \in HotSlots
      /\ \A f \in Functions : new[f].native = IF f = u THEN Entry(obj) ELSE hot[f].native
  BY <1>2, <1>7, Tier2TableFacts
<1>9. Entry(obj).id = obj.id /\ Entry(obj).unit = u /\ Entry(obj).loop = NoLoop
  BY <1>2, Tier2ObjectFacts
<1> HIDE DEF obj, ip, new
<1>10. /\ ObjectsAtHome' /\ builds' \in Nat /\ DOMAIN cache' = DOMAIN cache \cup {ip}
       /\ \A c : c.id = obj.id /\ c.unit = u => Backed(c)'
       /\ \A f \in prog.called \cup MethodsOf(prog) :
             f # u => \A c : c = hot[f].native => CodeOf(c, f, NoLoop)'
       /\ \A l \in prog.loops :
             \A c : c = lhot[LoopSlot(prog.run.loops[l].at)].osr =>
                       CodeOf(c, prog.run.loops[l].of, l)'
       /\ SitesRight'
  BY <1>1, <1>2, <1>4, <1>5, <1>6, StoreFacts DEF ip
<1>11. hot' = new /\ view' = view
  BY <1>1, <1>7, <1>8 DEF SetTable, Sound, IInv, Shapes
<1>12. Shapes'
  <2>1. \A i \in Table : hot'[i] \in HotSlots'
    BY <1>3, <1>8, <1>11 DEF HotSlots
  <2> QED
    BY <1>1, <1>3, <1>8, <1>10, <1>11, <2>1 DEF Sound, IInv, Shapes, HotSlots
<1>13. ViewFollows'
  BY <1>1 DEF ViewFollows
<1>14. ArmedFirst'
  <2>1. 0 .. armed' - 1 = (0 .. armed - 1) \cup {u}
    BY <1>1
  <2> QED
    BY <1>1, <1>5, <1>10, <2>1 DEF Sound, IInv, ArmedFirst
<1>15. SlotsRight'
  <2> SUFFICES ASSUME NEW f \in prog.called \cup MethodsOf(prog)
               PROVE  \A c : c = new[f].native => CodeOf(c, f, NoLoop)'
    BY <1>1, <1>11 DEF SlotsRight, CodeOf, Backed, MethodsOf
  <2>1. f \in Functions
    BY ProgramFacts DEF Sound, Functions
  <2>2. CASE f = u
    BY <1>8, <1>9, <1>10, <2>1, <2>2 DEF CodeOf
  <2>3. CASE f # u
    BY <1>8, <1>10, <2>1, <2>3
  <2> QED
    BY <2>2, <2>3
<1>16. LoopsRight'
  BY <1>1, <1>10 DEF Sound, IInv, LoopsRight, CodeOf, Backed
<1>17. EntersTheRightCode' /\ NothingDangles'
  BY <1>1 DEF Sound, IInv, EntersTheRightCode, NothingDangles
<1> QED
  BY <1>3, <1>10, <1>12, <1>13, <1>14, <1>15, <1>16, <1>17 DEF Sound, IInv

LEMMA BindStep ==
    ASSUME Sound, Bind
    PROVE  Sound'
<1>1. /\ phase = "arm" /\ phase' = "run" /\ armed = prog.n
      /\ view' = [size |-> Cardinality(DOMAIN hot), ok |-> TRUE]
      /\ UNCHANGED <<prog, armed, cache, builds, hot, lhot, ic, mega, frames, entered>>
  BY DEF Bind
<1>2. /\ (prog \in Programs)' /\ WellPlaced(prog)' /\ Table' = Table /\ Codes' = Codes
  BY <1>1, ProgramStays
<1>3. Cardinality(DOMAIN hot) = TableSize(prog)
  <2>1. DOMAIN hot = 0 .. TableSize(prog) - 1 /\ TableSize(prog) \in Nat
    BY PlacedFacts DEF Sound, IInv, Shapes, Table
  <2> QED
    BY <2>1, FS_Interval
<1>4. Shapes' /\ ViewFollows'
  BY <1>1, <1>2, <1>3, PlacedFacts DEF Sound, IInv, Shapes, ViewFollows
<1>5. ArmedFirst'
  BY <1>1 DEF Sound, IInv, ArmedFirst
<1>6. ObjectsAtHome' /\ SlotsRight' /\ LoopsRight' /\ SitesRight'
  BY <1>1, TablesKept
<1>7. EntersTheRightCode' /\ NothingDangles'
  BY <1>1 DEF Sound, IInv, EntersTheRightCode, NothingDangles
<1> QED
  BY <1>2, <1>4, <1>5, <1>6, <1>7 DEF Sound, IInv

(* The interpreter goes on without a look at the tables, or enters code that *)
(* is right.                                                                 *)
LEMMA QuietStep ==
    ASSUME Sound, UNCHANGED <<prog, armed, jit, lhot, ic>>,
           phase # "arm", phase' # "arm",
           EntersTheRightCode', entered'.live
    PROVE  Sound'
<1>1. UNCHANGED <<prog, armed, cache, builds, hot, view, lhot, ic>>
  BY DEF jit
<1>2. /\ (prog \in Programs)' /\ WellPlaced(prog)' /\ Table' = Table /\ Codes' = Codes
  BY <1>1, ProgramStays
<1>3. Shapes' /\ ViewFollows' /\ ArmedFirst'
  BY <1>1, <1>2 DEF Sound, IInv, Shapes, ViewFollows, ArmedFirst
<1>4. ObjectsAtHome' /\ SlotsRight' /\ LoopsRight' /\ SitesRight'
  BY <1>1, TablesKept
<1>5. NothingDangles'
  BY <1>1 DEF Sound, IInv, ViewFollows, NothingDangles
<1> QED
  BY <1>2, <1>3, <1>4, <1>5 DEF Sound, IInv

(* Code that is right for what it is entered for, and lives.                 *)
LEMMA EntryRight ==
    ASSUME Sound, NEW code, NEW u, NEW l, code # NoCode, CodeOf(code, u, l),
           EnterNative(code, u, l)
    PROVE  EntersTheRightCode' /\ entered'.live
<1>1. code.unit = u /\ code.loop = l /\ Live(code)
  BY BackedLives DEF CodeOf
<1> QED
  BY <1>1 DEF EnterNative, EntersTheRightCode

LEMMA StillRight ==
    ASSUME Sound, UNCHANGED entered
    PROVE  EntersTheRightCode' /\ entered'.live
  BY DEF Sound, IInv, EntersTheRightCode, NothingDangles

LEMMA ReturnStep ==
    ASSUME Sound, Return \/ Halt
    PROVE  Sound'
<1>1. /\ phase # "arm" /\ phase' # "arm"
      /\ UNCHANGED <<prog, armed, jit, lhot, ic, entered>>
  BY DEF Return, Halt
<1> QED
  BY <1>1, QuietStep, StillRight

LEMMA CallNativeStep ==
    ASSUME Sound, NEW f \in Functions, CallNative(f)
    PROVE  Sound'
<1> DEFINE code == hot[f].native
<1>1. /\ phase = "run" /\ f \in prog.called /\ hot[Slot(f)].native # NoCode
      /\ EnterNative(hot[Slot(f)].native, f, NoLoop)
      /\ UNCHANGED <<prog, phase, armed, jit, lhot, ic>>
  BY DEF CallNative
<1>2. Slot(f) = f
  BY <1>1, SlotIsIndex
<1>3. CodeOf(code, f, NoLoop)
  BY <1>1 DEF Sound, IInv, SlotsRight
<1>4. code # NoCode /\ EnterNative(code, f, NoLoop)
  BY <1>1, <1>2
<1>5. EntersTheRightCode' /\ entered'.live
  <2> HIDE DEF code
  <2> QED
    BY <1>3, <1>4, EntryRight
<1> QED
  BY <1>1, <1>5, QuietStep

LEMMA CallPlainStep ==
    ASSUME Sound, NEW f \in Functions, CallPlain(f)
    PROVE  Sound'
<1>1. /\ phase # "arm" /\ phase' # "arm"
      /\ UNCHANGED <<prog, armed, jit, lhot, ic, entered>>
  BY DEF CallPlain
<1> QED
  BY <1>1, QuietStep, StillRight

LEMMA InvokeNativeStep ==
    ASSUME Sound, NEW s \in DOMAIN prog.sites, NEW r \in DOMAIN prog.sites[s],
           InvokeNative(s, r)
    PROVE  Sound'
<1> DEFINE code == ic[s][r]
           f    == prog.sites[s][r]
<1>1. /\ phase = "run" /\ r \in DOMAIN ic[s] /\ code # NoCode
      /\ EnterNative(code, f, NoLoop)
      /\ UNCHANGED <<prog, phase, armed, jit, lhot, ic>>
  BY DEF InvokeNative, Known
<1>2. CodeOf(code, f, NoLoop)
  BY <1>1 DEF Sound, IInv, SitesRight, Shapes
<1>3. EntersTheRightCode' /\ entered'.live
  <2> HIDE DEF code, f
  <2> QED
    BY <1>1, <1>2, EntryRight
<1> QED
  BY <1>1, <1>3, QuietStep

LEMMA InvokeKnownStep ==
    ASSUME Sound, NEW s \in DOMAIN prog.sites, NEW r \in DOMAIN prog.sites[s],
           InvokeKnown(s, r)
    PROVE  Sound'
<1>1. /\ phase # "arm" /\ phase' # "arm"
      /\ UNCHANGED <<prog, armed, jit, lhot, ic, entered>>
  BY DEF InvokeKnown
<1> QED
  BY <1>1, QuietStep, StillRight

LEMMA BackEdgeNativeStep ==
    ASSUME Sound, NEW l \in prog.loops, BackEdgeNative(l)
    PROVE  Sound'
<1> DEFINE code == lhot[LoopSlot(prog.run.loops[l].at)].osr
<1>1. /\ phase = "run" /\ prog.run.loops[l].of = Current /\ code # NoCode
      /\ EnterNative(code, Current, l)
      /\ phase' # "arm"
      /\ UNCHANGED <<prog, armed, jit, lhot, ic>>
  BY DEF BackEdgeNative
<1>2. CodeOf(code, Current, l)
  BY <1>1 DEF Sound, IInv, LoopsRight
<1>3. EntersTheRightCode' /\ entered'.live
  <2> HIDE DEF code
  <2> QED
    BY <1>1, <1>2, EntryRight
<1> QED
  BY <1>1, <1>3, QuietStep

(* A site remembers what the method's slot holds, which is its code.         *)
LEMMA InvokeNewStep ==
    ASSUME Sound, NEW s \in DOMAIN prog.sites, NEW r \in DOMAIN prog.sites[s],
           InvokeNew(s, r)
    PROVE  Sound'
<1> DEFINE f    == prog.sites[s][r]
           code == hot[Slot(f)].native
           site == [x \in DOMAIN ic[s] \cup {r} |-> IF x = r THEN code ELSE ic[s][x]]
<1>1. /\ phase = "run" /\ phase' = "run"
      /\ UNCHANGED <<prog, phase, armed, cache, builds, hot, view, lhot, entered>>
      /\ ic' = [ic EXCEPT ![s] = site] \/ ic' = ic
  BY DEF InvokeNew, jit
<1>2. CASE ic' = ic
  <2>1. UNCHANGED <<prog, armed, jit, lhot, ic>>
    BY <1>1, <1>2 DEF jit
  <2> QED
    BY <1>1, <2>1, QuietStep, StillRight
<1>3. CASE ic' = [ic EXCEPT ![s] = site]
  <2>1. f \in MethodsOf(prog) /\ f \in Functions
    BY ProgramFacts DEF MethodsOf, Image, Sound, Functions
  <2>2. Slot(f) = f
    BY <1>1, <2>1, SlotIsIndex
  <2>3. CodeOf(code, f, NoLoop)
    BY <2>1, <2>2 DEF Sound, IInv, SlotsRight
  <2>4. /\ (prog \in Programs)' /\ WellPlaced(prog)' /\ Table' = Table /\ Codes' = Codes
    BY <1>1, ProgramStays
  <2>5. DOMAIN ic = DOMAIN prog.sites /\ \A t \in DOMAIN ic : DOMAIN ic[t] \subseteq DOMAIN prog.sites[t]
    BY DEF Sound, IInv, Shapes
  <2>6. /\ DOMAIN ic' = DOMAIN ic
        /\ \A t \in DOMAIN ic : ic'[t] = IF t = s THEN site ELSE ic[t]
    BY <1>3
  <2>7. Shapes'
    <3>1. \A t \in DOMAIN ic' : DOMAIN ic'[t] \subseteq DOMAIN prog'.sites[t]
      BY <1>1, <2>5, <2>6
    <3> QED
      BY <1>1, <2>4, <2>5, <2>6, <3>1 DEF Sound, IInv, Shapes
  <2>8. ViewFollows' /\ ArmedFirst'
    BY <1>1 DEF Sound, IInv, ViewFollows, ArmedFirst
  <2>9. ObjectsAtHome' /\ SlotsRight' /\ LoopsRight'
    BY <1>1, TablesKept
  <2>10. SitesRight'
    <3>1. \A t \in DOMAIN ic : \A x \in DOMAIN ic'[t] :
             CodeOf(ic'[t][x], prog.sites[t][x], NoLoop)
      <4> SUFFICES ASSUME NEW t \in DOMAIN ic, NEW x \in DOMAIN ic'[t]
                   PROVE  CodeOf(ic'[t][x], prog.sites[t][x], NoLoop)
        OBVIOUS
      <4>1. CASE t = s /\ x = r
        <5>1. ic'[t][x] = code
          BY <2>6, <4>1
        <5> QED
          BY <2>3, <4>1, <5>1
      <4>2. CASE ~ (t = s /\ x = r)
        <5>1. x \in DOMAIN ic[t] /\ ic'[t][x] = ic[t][x]
          BY <2>6, <4>2
        <5> QED
          BY <5>1 DEF Sound, IInv, SitesRight
      <4> QED
        BY <4>1, <4>2
    <3> QED
      BY <1>1, <2>6, <3>1 DEF SitesRight, CodeOf, Backed
  <2>11. EntersTheRightCode' /\ NothingDangles'
    BY <1>1 DEF Sound, IInv, EntersTheRightCode, NothingDangles
  <2> QED
    BY <2>4, <2>7, <2>8, <2>9, <2>10, <2>11 DEF Sound, IInv
<1> QED
  BY <1>1, <1>2, <1>3

LoopSlotsOK == [osr : Codes, count : Nat, limit : Nat, tier : Nat]

(* What is left to show of a step that counts, promotes and compiles.        *)
LEMMA TieringStep ==
    ASSUME Sound, phase = "run", UNCHANGED <<prog, phase, armed, view, ic, entered>>,
           DOMAIN hot' = Table, \A i \in Table : hot'[i] \in HotSlots,
           DOMAIN lhot' = DOMAIN lhot, \A i \in DOMAIN lhot : lhot'[i] \in LoopSlotsOK,
           builds' \in Nat, DOMAIN cache \subseteq DOMAIN cache',
           ObjectsAtHome', SlotsRight', LoopsRight', SitesRight'
    PROVE  Sound'
<1>1. /\ (prog \in Programs)' /\ WellPlaced(prog)' /\ Table' = Table /\ Codes' = Codes
  BY ProgramStays
<1>2. Shapes'
  <2>1. \A i \in Table : hot'[i] \in [native : Codes', count : Nat, limit : Nat, tier : Nat]
    BY <1>1 DEF HotSlots
  <2>2. \A i \in DOMAIN lhot : lhot'[i] \in [osr : Codes', count : Nat, limit : Nat, tier : Nat]
    BY <1>1 DEF LoopSlotsOK
  <2> QED
    BY <1>1, <2>1, <2>2 DEF Sound, IInv, Shapes
<1>3. ViewFollows' /\ ArmedFirst'
  BY DEF Sound, IInv, ViewFollows, ArmedFirst
<1>4. EntersTheRightCode' /\ NothingDangles'
  BY DEF Sound, IInv, EntersTheRightCode, NothingDangles
<1> QED
  BY <1>1, <1>2, <1>3, <1>4 DEF Sound, IInv

(* The types of the tables, and the slots loops lead to.                     *)
LEMMA TableFacts ==
    ASSUME Sound
    PROVE  /\ DOMAIN hot = Table /\ \A i \in Table : hot[i] \in HotSlots
           /\ DOMAIN lhot = 0 .. LoopSlots - 1 /\ \A i \in DOMAIN lhot : lhot[i] \in LoopSlotsOK
           /\ builds \in Nat
           /\ \A f \in prog.called \cup MethodsOf(prog) : f \in Functions
           /\ Functions \subseteq Table /\ Functions \subseteq Units(prog)
           /\ {Slack, CallPenalty, EdgePenalty, MinCode} \subseteq Nat
<1>1. \A f \in prog.called \cup MethodsOf(prog) : f \in Functions
  BY ProgramFacts DEF Sound, Functions
<1>2. Functions \subseteq Table /\ Functions \subseteq Units(prog)
  BY PlacedFacts DEF Sound, Functions, Table, Units
<1> QED
  BY <1>1, <1>2, TieringAssumption DEF Sound, IInv, Shapes, HotSlots, LoopSlotsOK

(* Slots are right after a store if each holds what it held, or the entry of *)
(* the new object in the slot of its function.                               *)
LEMMA SlotsStayRight ==
    ASSUME Sound, UNCHANGED prog, NEW u, NEW new, hot' = new,
           \A f \in prog.called \cup MethodsOf(prog) :
              \/ f = u /\ CodeOf(new[f].native, f, NoLoop)'
              \/ new[f].native = hot[f].native /\
                 \A c : c = hot[f].native => CodeOf(c, f, NoLoop)'
    PROVE  SlotsRight'
  BY DEF SlotsRight, CodeOf, Backed, MethodsOf

LEMMA CallStep ==
    ASSUME Sound, NEW f \in Functions, Call(f)
    PROVE  Sound'
<1> DEFINE counted == [hot EXCEPT ![f].count = @ + 1]
           base    == Baseline(f)
           built   == Tier2Object(prog.run, f)
<1>1. /\ phase = "run" /\ f \in prog.called /\ hot[Slot(f)].native = NoCode
      /\ UNCHANGED <<prog, phase, armed, lhot, ic, entered>>
  BY DEF Call
<1>2. Slot(f) = f
  BY <1>1, SlotIsIndex
<1>3. \/ SetTable(counted) /\ UNCHANGED <<cache, builds>>
      \/ PromoteCall(f, counted)
  BY <1>1, <1>2 DEF Call
<1>4. /\ DOMAIN hot = Table /\ \A i \in Table : hot[i] \in HotSlots
      /\ DOMAIN lhot = 0 .. LoopSlots - 1 /\ \A i \in DOMAIN lhot : lhot[i] \in LoopSlotsOK
      /\ builds \in Nat
      /\ \A g \in prog.called \cup MethodsOf(prog) : g \in Functions
      /\ Functions \subseteq Table /\ Functions \subseteq Units(prog)
      /\ CallPenalty \in Nat
  BY TableFacts
<1>5. /\ DOMAIN counted = Table /\ \A i \in Table : counted[i] \in HotSlots
      /\ \A i \in Table : counted[i].native = hot[i].native
  BY <1>4 DEF HotSlots
<1> HIDE DEF counted
<1>6. ASSUME NEW new, SetTable(new), UNCHANGED <<cache, builds>>, DOMAIN new = Table,
             \A i \in Table : new[i] \in HotSlots /\ new[i].native = hot[i].native
      PROVE  Sound'
  <2>1. ObjectsAtHome' /\ LoopsRight' /\ SitesRight'
    BY <1>1, <1>6, TablesKept
  <2>2. hot' = new /\ view' = view
    BY <1>4, <1>6 DEF SetTable, Sound, IInv, Shapes
  <2>3. SlotsRight'
    BY <1>1, <1>4, <1>6, <2>2 DEF Sound, IInv, SlotsRight, CodeOf, Backed
  <2> QED
    BY <1>1, <1>4, <1>6, <2>1, <2>2, <2>3, TieringStep
<1>7. ASSUME NEW new, SetTable(new), NEW obj \in Objects, Store(prog.run, f, obj),
             obj.unit = f, HasEntriesOf(obj, f),
             \/ IpOf(prog.run, f) \notin DOMAIN cache
             \/ obj = cache[IpOf(prog.run, f)],
             DOMAIN new = Table, \A i \in Table : new[i] \in HotSlots,
             new[f].native = Entry(obj),
             \A g \in Functions : g # f => new[g].native = hot[g].native
      PROVE  Sound'
  <2>1. /\ ObjectsAtHome' /\ builds' \in Nat
        /\ DOMAIN cache' = DOMAIN cache \cup {IpOf(prog.run, f)}
        /\ \A c : c.id = obj.id /\ c.unit = f => Backed(c)'
        /\ \A l \in prog.loops :
              \A c : c = lhot[LoopSlot(prog.run.loops[l].at)].osr =>
                        CodeOf(c, prog.run.loops[l].of, l)'
        /\ SitesRight'
    BY <1>1, <1>4, <1>7, StoreFacts
  <2>2. \A g \in prog.called \cup MethodsOf(prog) :
           g # f => \A c : c = hot[g].native => CodeOf(c, g, NoLoop)'
    BY <1>1, <1>4, <1>7, StoreFacts
  <2>3. hot' = new /\ view' = view
    BY <1>4, <1>7 DEF SetTable, Sound, IInv, Shapes
  <2>4. CodeOf(Entry(obj), f, NoLoop)'
    <3>1. Entry(obj).id = obj.id /\ Entry(obj).unit = f /\ Entry(obj).loop = NoLoop
      BY <1>7 DEF Entry
    <3> QED
      BY <1>7, <2>1, <3>1 DEF CodeOf
  <2>5. SlotsRight'
    BY <1>1, <1>4, <1>7, <2>2, <2>3, <2>4, SlotsStayRight
  <2>6. LoopsRight'
    BY <1>1, <2>1 DEF Sound, IInv, LoopsRight, CodeOf, Backed
  <2> QED
    BY <1>1, <1>4, <1>7, <2>1, <2>3, <2>5, <2>6, TieringStep
<1>8. CASE SetTable(counted) /\ UNCHANGED <<cache, builds>>
  BY <1>5, <1>6, <1>8
<1>9. CASE PromoteCall(f, counted)
  <2>1. CASE /\ SetTable([counted EXCEPT ![f].limit = @ + CallPenalty])
             /\ UNCHANGED <<cache, builds>>
    <3> DEFINE new == [counted EXCEPT ![f].limit = @ + CallPenalty]
               slot == [counted[f] EXCEPT !.limit = @ + CallPenalty]
    <3>0. slot \in HotSlots /\ slot.native = counted[f].native
      BY <1>4, <1>5 DEF HotSlots
    <3>1. /\ DOMAIN new = Table
          /\ \A i \in Table : new[i] = IF i = f THEN slot ELSE counted[i]
      BY <1>5
    <3> HIDE DEF slot
    <3>2. \A i \in Table : new[i] \in HotSlots /\ new[i].native = hot[i].native
      BY <1>4, <1>5, <3>0, <3>1
    <3> HIDE DEF new
    <3> QED
      BY <1>6, <2>1, <3>1, <3>2 DEF new
  <2>2. CASE /\ base.status = "compiled"
             /\ Store(prog.run, f, base)
             /\ SetTable([counted EXCEPT ![f].native = Entry(base), ![f].tier = 1])
    <3> DEFINE new == [counted EXCEPT ![f].native = Entry(base), ![f].tier = 1]
    <3>1. /\ base \in Objects /\ base.unit = f /\ HasEntriesOf(base, f)
          /\ IpOf(prog.run, f) \in DOMAIN cache => base = cache[IpOf(prog.run, f)]
      BY <1>1, <1>4, <2>2, BaselineFacts
    <3> HIDE DEF base
    <3>2. Entry(base) \in Codes
      BY <1>4, <3>1 DEF Entry, Codes, Objects, NoLoop
    <3>3. /\ DOMAIN new = Table /\ \A i \in Table : new[i] \in HotSlots
          /\ new[f].native = Entry(base)
          /\ \A g \in Functions : g # f => new[g].native = hot[g].native
      BY <1>4, <1>5, <3>2 DEF HotSlots
    <3>4. SetTable(new) /\ Store(prog.run, f, base)
      BY <2>2 DEF base
    <3> HIDE DEF new
    <3> QED
      BY <1>7, <3>1, <3>3, <3>4
  <2>3. CASE /\ base.status = "failed"
             /\ Store(prog.run, f, built)
             /\ SetTable([Tier2Table(counted, prog.run, f) EXCEPT
                             ![f].native = Entry(built), ![f].tier = 2])
    <3> DEFINE table == Tier2Table(counted, prog.run, f)
               new   == [table EXCEPT ![f].native = Entry(built), ![f].tier = 2]
    <3>1. IpOf(prog.run, f) \notin DOMAIN cache
      BY <1>1, <1>4, <2>3, BaselineFacts
    <3>2. HasEntriesOf(built, f)
      BY <1>1, <1>4, <2>3, Tier2Entries
    <3>3. built \in Objects /\ built.unit = f /\ Entry(built) \in Codes
      BY <1>4, Tier2ObjectFacts
    <3>4. /\ DOMAIN table = Table /\ \A i \in Table : table[i] \in HotSlots
          /\ \A g \in Functions : g # f => table[g].native = hot[g].native
      <4>1. \A g \in Functions : g = f \/ (f = Top /\ g = 0) => g = f
        BY DEF Functions, Top
      <4> QED
        BY <1>4, <1>5, <4>1, Tier2TableFacts
    <3> HIDE DEF built, table
    <3>5. /\ DOMAIN new = Table /\ \A i \in Table : new[i] \in HotSlots
          /\ new[f].native = Entry(built)
          /\ \A g \in Functions : g # f => new[g].native = hot[g].native
      BY <1>4, <3>3, <3>4 DEF HotSlots
    <3>6. SetTable(new) /\ Store(prog.run, f, built)
      BY <2>3 DEF built, table
    <3> HIDE DEF new
    <3> QED
      BY <1>7, <3>1, <3>2, <3>3, <3>5, <3>6
  <2> QED
    BY <1>2, <1>9, <2>1, <2>2, <2>3 DEF PromoteCall
<1> QED
  BY <1>3, <1>8, <1>9

(* Loop slots are right if the slot of loop l holds code that is right for l *)
(* or what it held, and all others hold what they held.                      *)
LEMMA LoopsStayRight ==
    ASSUME Sound, UNCHANGED prog, NEW l \in prog.loops, DOMAIN lhot' = DOMAIN lhot,
           \A i \in DOMAIN lhot :
              i # LoopSlot(prog.run.loops[l].at) => lhot'[i].osr = lhot[i].osr,
           \A m \in prog.loops :
              \A c : c = lhot[LoopSlot(prog.run.loops[m].at)].osr =>
                        CodeOf(c, prog.run.loops[m].of, m)',
           NEW code, code = lhot'[LoopSlot(prog.run.loops[l].at)].osr,
           \/ code = lhot[LoopSlot(prog.run.loops[l].at)].osr
           \/ /\ ~ Unshared(prog, prog.run.loops[l].of)
              /\ code.unit = prog.run.loops[l].of /\ code.loop = l /\ Backed(code)'
    PROVE  LoopsRight'
<1>1. ASSUME NEW m \in prog.loops,
             NEW i, i = LoopSlot(prog.run.loops[m].at),
             NEW u, u = prog.run.loops[m].of,
             NEW c, c = lhot'[i].osr
      PROVE  CodeOf(c, u, m)' /\ (Unshared(prog, u) => c = NoCode)
  <2>1. i \in DOMAIN lhot
    BY <1>1, LoopSlotFacts, TableFacts DEF Sound
  <2>2. Unshared(prog, u) => lhot[i].osr = NoCode
    BY <1>1 DEF Sound, IInv, LoopsRight
  <2>3. \A d : d = lhot[i].osr => CodeOf(d, u, m)'
    BY <1>1 DEF CodeOf, Backed
  <2>4. CASE c = lhot[i].osr
    BY <2>2, <2>3, <2>4
  <2>5. CASE c # lhot[i].osr
    <3>1. i = LoopSlot(prog.run.loops[l].at)
      BY <1>1, <2>1, <2>5
    <3>2. m = l
      BY <1>1, <3>1, LoopSlotFacts DEF Sound
    <3>3. c = code /\ ~ Unshared(prog, u) /\ code.unit = u /\ code.loop = m /\ Backed(code)'
      BY <1>1, <2>5, <3>1, <3>2
    <3>4. CodeOf(code, u, m)'
      BY <3>3 DEF CodeOf
    <3> QED
      BY <3>3, <3>4 DEF CodeOf
  <2> QED
    BY <2>4, <2>5
<1>2. ASSUME NEW m \in prog.loops
      PROVE  LET u == prog.run.loops[m].of
                 c == lhot'[LoopSlot(prog.run.loops[m].at)].osr
             IN  /\ c # NoCode => /\ c.unit = u /\ c.loop = m
                                  /\ \E ip \in DOMAIN cache' :
                                        cache'[ip].id = c.id /\ cache'[ip].unit = c.unit
                 /\ Unshared(prog, u) => c = NoCode
  <2>1. PICK i, u, c : /\ i = LoopSlot(prog.run.loops[m].at)
                       /\ u = prog.run.loops[m].of
                       /\ c = lhot'[i].osr
    OBVIOUS
  <2>2. CodeOf(c, u, m)' /\ (Unshared(prog, u) => c = NoCode)
    BY <1>1, <2>1
  <2> QED
    BY <2>1, <2>2 DEF CodeOf, Backed
<1> QED
  BY <1>2 DEF LoopsRight, CodeOf, Backed

LEMMA BackEdgeStep ==
    ASSUME Sound, NEW l \in prog.loops, BackEdge(l)
    PROVE  Sound'
<1>u. PICK u : u = Current
  OBVIOUS
<1>b. PICK built : built = Tier2Object(prog.run, u)
  OBVIOUS
<1> DEFINE at      == prog.run.loops[l].at
           s       == LoopSlot(at)
           counted == [lhot EXCEPT ![s].count = @ + 1]
           base    == Baseline(u)
<1>1. /\ phase = "run" /\ prog.run.loops[l].of = u /\ lhot[s].osr = NoCode
      /\ UNCHANGED <<prog, phase, armed, ic, entered>>
      /\ \/ lhot' = counted /\ UNCHANGED jit
         \/ PromoteLoop(u, at, s, counted)
  BY <1>u DEF BackEdge
<1>2. u \in Units(prog) /\ l \in LoopsIn(prog, u)
  BY <1>1, ChunkFacts DEF LoopsIn, Sound
<1>3. /\ DOMAIN hot = Table /\ \A i \in Table : hot[i] \in HotSlots
      /\ DOMAIN lhot = 0 .. LoopSlots - 1 /\ \A i \in DOMAIN lhot : lhot[i] \in LoopSlotsOK
      /\ builds \in Nat
      /\ \A g \in prog.called \cup MethodsOf(prog) : g \in Functions
      /\ Functions \subseteq Table /\ Functions \subseteq Units(prog)
      /\ EdgePenalty \in Nat
  BY TableFacts
<1>4. s \in DOMAIN lhot
  BY <1>3, LoopSlotFacts DEF Sound
<1>5. /\ DOMAIN counted = DOMAIN lhot
      /\ \A i \in DOMAIN lhot : counted[i] \in LoopSlotsOK /\ counted[i].osr = lhot[i].osr
  BY <1>3 DEF LoopSlotsOK
<1> DEFINE later == [counted EXCEPT ![s].limit = @ + EdgePenalty]
<1>6. /\ DOMAIN later = DOMAIN lhot
      /\ \A i \in DOMAIN lhot : later[i] \in LoopSlotsOK /\ later[i].osr = lhot[i].osr
  <2> DEFINE slot == [counted[s] EXCEPT !.limit = @ + EdgePenalty]
  <2>1. slot \in LoopSlotsOK /\ slot.osr = counted[s].osr
    <3> HIDE DEF counted, s
    <3> QED
      BY <1>3, <1>4, <1>5 DEF LoopSlotsOK
  <2>2. /\ DOMAIN later = DOMAIN lhot
        /\ \A i \in DOMAIN lhot : later[i] = IF i = s THEN slot ELSE counted[i]
    <3> HIDE DEF counted, s
    <3> QED
      BY <1>5
  <2> HIDE DEF later, slot, counted, s
  <2> QED
    BY <1>4, <1>5, <2>1, <2>2
<1> DEFINE With(code, tier) == [counted EXCEPT ![s].osr = code, ![s].tier = tier]
<1>7. ASSUME NEW code \in Codes, NEW tier \in Nat
      PROVE  /\ DOMAIN With(code, tier) = DOMAIN lhot
             /\ \A i \in DOMAIN lhot : With(code, tier)[i] \in LoopSlotsOK
             /\ With(code, tier)[s].osr = code
             /\ \A i \in DOMAIN lhot : i # s => With(code, tier)[i].osr = lhot[i].osr
  <2> HIDE DEF counted, s
  <2> QED
    BY <1>3, <1>4, <1>5 DEF LoopSlotsOK
<1> HIDE DEF counted, later, With, s
<1>8. ASSUME NEW new, lhot' = new, UNCHANGED jit, DOMAIN new = DOMAIN lhot,
             \A i \in DOMAIN lhot : new[i] \in LoopSlotsOK /\ new[i].osr = lhot[i].osr
      PROVE  Sound'
  <2>0. UNCHANGED <<cache, builds, hot, view>>
    BY <1>8 DEF jit
  <2>1. ObjectsAtHome' /\ SlotsRight' /\ SitesRight'
    BY <1>1, <2>0, TablesKept
  <2>2. \A m \in prog.loops : LoopSlot(prog.run.loops[m].at) \in DOMAIN lhot
    BY <1>3, LoopSlotFacts DEF Sound
  <2>3. LoopsRight'
    BY <1>1, <1>8, <2>0, <2>2 DEF Sound, IInv, LoopsRight, CodeOf, Backed
  <2> QED
    BY <1>1, <1>3, <1>8, <2>0, <2>1, <2>3, TieringStep
<1>9. CASE lhot' = counted /\ UNCHANGED jit
  BY <1>5, <1>8, <1>9
<1>10. CASE lhot' = later /\ UNCHANGED jit
  BY <1>6, <1>8, <1>10
<1>11. ASSUME NEW code \in OsrEntry(base, at), lhot' = With(code, 1),
              Store(prog.run, u, base), UNCHANGED <<hot, view>>
       PROVE  Sound'
  <2>1. base.status = "compiled"
    BY <1>11 DEF OsrEntry
  <2>2. /\ base \in Objects /\ base.unit = u /\ HasEntriesOf(base, u)
        /\ IpOf(prog.run, u) \in DOMAIN cache => base = cache[IpOf(prog.run, u)]
    BY <1>1, <1>2, <2>1, BaselineFacts
  <2> HIDE DEF base
  <2>3. /\ code \in Codes /\ code.id = base.id /\ code.unit = u /\ code.loop = l
        /\ ~ Unshared(prog, u)
    BY <1>2, <1>11, <2>2, OsrFacts
  <2>4. /\ ObjectsAtHome' /\ builds' \in Nat
        /\ DOMAIN cache' = DOMAIN cache \cup {IpOf(prog.run, u)}
        /\ \A c : c.id = base.id /\ c.unit = u => Backed(c)'
        /\ \A m \in prog.loops :
              \A c : c = lhot[LoopSlot(prog.run.loops[m].at)].osr =>
                        CodeOf(c, prog.run.loops[m].of, m)'
        /\ SitesRight'
    BY <1>1, <1>2, <1>11, <2>2, StoreFacts
  <2>5. \A g \in prog.called \cup MethodsOf(prog) :
           \A c : c = hot[g].native => CodeOf(c, g, NoLoop)'
    BY <1>1, <1>2, <1>11, <2>2, <2>3, StoreFacts
  <2>6. SlotsRight'
    BY <1>1, <1>11, <2>5, SlotsStayRight
  <2>7. /\ DOMAIN lhot' = DOMAIN lhot /\ \A i \in DOMAIN lhot : lhot'[i] \in LoopSlotsOK
        /\ lhot'[s].osr = code
        /\ \A i \in DOMAIN lhot : i # s => lhot'[i].osr = lhot[i].osr
    BY <1>7, <1>11, <2>3
  <2>8. Backed(code)'
    BY <2>3, <2>4
  <2>10. LoopsRight'
    BY <1>1, <2>3, <2>4, <2>7, <2>8, LoopsStayRight DEF s
  <2> QED
    BY <1>1, <1>3, <1>11, <2>4, <2>6, <2>7, <2>10, TieringStep
<1>12. ASSUME OsrEntry(base, at) = {}, Store(prog.run, u, built),
              SetTable(Tier2Table(hot, prog.run, u)),
              \/ \E code \in OsrEntry(built, at) : lhot' = With(code, 2)
              \/ lhot' = later
       PROVE  Sound'
  <2>n. PICK new : new = Tier2Table(hot, prog.run, u)
    OBVIOUS
  <2>c. PICK code : code = Entry(built)
    OBVIOUS
  <2>1. base.status = "failed" \/ Unshared(prog, u)
    <3>1. base.status = "compiled" => ~ Settled(prog, u)
      BY <1>1, <1>2, <1>12, BaselineFacts, OsrFacts
    <3>2. base.status \in {"compiled", "failed"}
      BY <1>1, <1>2, BaselineFacts
    <3>3. Settled(prog, u) \/ Unshared(prog, u)
      BY <1>2 DEF Sound, WellPlaced
    <3> QED
      BY <3>1, <3>2, <3>3
  <2>2. IpOf(prog.run, u) \notin DOMAIN cache \/ Unshared(prog, u)
    BY <1>1, <1>2, <2>1, BaselineFacts
  <2>3. u = Top => 0 \notin prog.called \cup MethodsOf(prog)
    <3>1. ASSUME u = Top, Top \in prog.run.baseline,
                 \A m \in LoopsIn(prog, Top) : prog.run.loops[m].tier1
          PROVE  FALSE
      <4>1. Settled(prog, Top)
        BY <3>1 DEF Settled, SameCode
      <4>2. base.status = "compiled"
        BY <1>1, <1>2, <3>1, BaselineFacts
      <4>3. base \in Objects /\ base.unit = u /\ HasEntriesOf(base, u)
        BY <1>1, <1>2, <4>2, BaselineFacts
      <4> HIDE DEF base
      <4> QED
        BY <1>2, <1>12, <3>1, <4>1, <4>3, OsrFacts
    <3>2. u = Top => LoopsIn(prog, Top) # {}
      BY <1>2
    <3> QED
      BY <3>1, <3>2 DEF Sound, WellPlaced
  <2>4. built \in Objects /\ built.unit = u /\ HasEntriesOf(built, u)
    BY <1>1, <1>2, <1>b, <2>1, Tier2ObjectFacts, Tier2Entries
  <2>5. code.id = built.id /\ code.unit = u /\ code.loop = NoLoop
    BY <1>2, <1>b, <2>c, Tier2ObjectFacts
  <2>6. /\ DOMAIN new = Table /\ \A i \in Table : new[i] \in HotSlots
        /\ \A g \in Functions :
              new[g].native = IF g = u \/ (u = Top /\ g = 0) THEN code ELSE hot[g].native
    BY <1>2, <1>3, <1>b, <2>c, <2>n, Tier2TableFacts
  <2> HIDE DEF base
  <2>7. /\ ObjectsAtHome' /\ builds' \in Nat
        /\ DOMAIN cache' = DOMAIN cache \cup {IpOf(prog.run, u)}
        /\ \A c : c.id = built.id /\ c.unit = u => Backed(c)'
        /\ \A m \in prog.loops :
              \A c : c = lhot[LoopSlot(prog.run.loops[m].at)].osr =>
                        CodeOf(c, prog.run.loops[m].of, m)'
        /\ SitesRight'
    BY <1>1, <1>2, <1>12, <2>2, <2>4, StoreFacts
  <2>8. \A g \in prog.called \cup MethodsOf(prog) :
           g # u => \A c : c = hot[g].native => CodeOf(c, g, NoLoop)'
    BY <1>1, <1>2, <1>12, <2>2, <2>4, StoreFacts
  <2>9. hot' = new /\ view' = view
    BY <1>3, <1>12, <2>6, <2>n DEF SetTable, Sound, IInv, Shapes
  <2>10. CodeOf(code, u, NoLoop)'
    BY <2>5, <2>7 DEF CodeOf
  <2>11. SlotsRight'
    <3>1. ASSUME NEW g \in prog.called \cup MethodsOf(prog)
          PROVE  \/ g = u /\ CodeOf(new[g].native, g, NoLoop)'
                 \/ /\ new[g].native = hot[g].native
                    /\ \A c : c = hot[g].native => CodeOf(c, g, NoLoop)'
      <4>1. CASE g = u
        BY <1>3, <2>6, <2>9, <2>10, <4>1 DEF CodeOf
      <4>2. CASE g # u
        BY <1>3, <2>3, <2>6, <2>8, <4>2
      <4> QED
        BY <4>1, <4>2
    <3> QED
      BY <1>1, <2>9, <3>1, SlotsStayRight
  <2>12. ASSUME NEW osr \in OsrEntry(built, at), lhot' = With(osr, 2)
         PROVE  Sound'
    <3>1. /\ osr \in Codes /\ osr.id = built.id /\ osr.unit = u /\ osr.loop = l
          /\ ~ Unshared(prog, u)
      BY <1>2, <2>4, <2>12, OsrFacts
    <3>2. /\ DOMAIN lhot' = DOMAIN lhot /\ \A i \in DOMAIN lhot : lhot'[i] \in LoopSlotsOK
          /\ lhot'[s].osr = osr
          /\ \A i \in DOMAIN lhot : i # s => lhot'[i].osr = lhot[i].osr
      BY <1>7, <2>12, <3>1
    <3>3. Backed(osr)'
      BY <2>7, <3>1
    <3>5. LoopsRight'
      BY <1>1, <2>7, <3>1, <3>2, <3>3, LoopsStayRight DEF s
    <3> QED
      BY <1>1, <1>3, <2>6, <2>7, <2>9, <2>11, <3>2, <3>5, TieringStep
  <2>13. ASSUME lhot' = later
         PROVE  Sound'
    <3>1. /\ DOMAIN lhot' = DOMAIN lhot /\ \A i \in DOMAIN lhot : lhot'[i] \in LoopSlotsOK
          /\ \A i \in DOMAIN lhot : lhot'[i].osr = lhot[i].osr
      BY <1>6, <2>13
    <3>2. LoopsRight'
      BY <1>1, <1>4, <2>7, <3>1, LoopsStayRight DEF s
    <3> QED
      BY <1>1, <1>3, <2>6, <2>7, <2>9, <2>11, <3>1, <3>2, TieringStep
  <2> QED
    BY <1>12, <2>12, <2>13
<1>13. CASE PromoteLoop(u, at, s, counted)
  BY <1>10, <1>11, <1>12, <1>13, <1>b DEF PromoteLoop, later, With
<1> QED
  BY <1>1, <1>9, <1>13 DEF counted, s

LEMMA StepSound ==
    Sound /\ [Next]_vars => Sound'
<1> SUFFICES ASSUME Sound, [Next]_vars
             PROVE  Sound'
  OBVIOUS
<1>1. CASE PreArm
  BY <1>1, PreArmStep
<1>2. CASE Bind
  BY <1>2, BindStep
<1>3. CASE Return \/ Halt
  BY <1>3, ReturnStep
<1>4. ASSUME NEW f \in Functions, CallNative(f) \/ Call(f) \/ CallPlain(f)
      PROVE  Sound'
  BY <1>4, CallNativeStep, CallStep, CallPlainStep
<1>5. ASSUME NEW s \in DOMAIN prog.sites, NEW r \in DOMAIN prog.sites[s],
             InvokeNative(s, r) \/ InvokeKnown(s, r) \/ InvokeNew(s, r)
      PROVE  Sound'
  BY <1>5, InvokeNativeStep, InvokeKnownStep, InvokeNewStep
<1>6. ASSUME NEW l \in prog.loops, BackEdgeNative(l) \/ BackEdge(l)
      PROVE  Sound'
  BY <1>6, BackEdgeNativeStep, BackEdgeStep
<1>7. CASE UNCHANGED vars
  <2>1. UNCHANGED <<prog, phase, armed, cache, builds, hot, view, lhot, ic, entered>>
    BY <1>7 DEF vars
  <2>2. (prog \in Programs)' /\ WellPlaced(prog)' /\ Table' = Table /\ Codes' = Codes
    BY <2>1, ProgramStays
  <2>3. ObjectsAtHome' /\ SlotsRight' /\ LoopsRight' /\ SitesRight'
    BY <2>1, TablesKept
  <2> QED
    BY <2>1, <2>2, <2>3
       DEF Sound, IInv, Shapes, ViewFollows, ArmedFirst, EntersTheRightCode, NothingDangles
<1> QED
  BY <1>1, <1>2, <1>3, <1>4, <1>5, <1>6, <1>7 DEF Next

(* Whatever the program's size, its loops and the thresholds: if it lies     *)
(* well, all the tables and caches of the tiering code stay right together.  *)
THEOREM JITStaysSound ==
    Spec /\ WellPlaced(prog) => []Sound
<1>1. Init /\ WellPlaced(prog) => Sound
  BY StartSound
<1>2. Sound /\ [Next]_vars => Sound'
  BY StepSound
<1> QED
  BY <1>1, <1>2, PTL DEF Spec

(* Then a call enters the code of the function it calls, and a back edge the *)
(* code of its own loop.                                                     *)
THEOREM JITEntersTheRightCode ==
    Spec /\ WellPlaced(prog) => []EntersTheRightCode
<1>1. Sound => EntersTheRightCode
  BY DEF Sound, IInv
<1> QED
  BY <1>1, JITStaysSound, PTL

(* And no slot, loop slot or call site outlives the code it points at, nor   *)
(* the VM's pointer to the table the table.                                  *)
THEOREM JITNothingDangles ==
    Spec /\ WellPlaced(prog) => []NothingDangles
<1>1. Sound => NothingDangles
  BY DEF Sound, IInv
<1> QED
  BY <1>1, JITStaysSound, PTL

=============================================================================
