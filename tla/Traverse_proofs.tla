-------------------------- MODULE Traverse_proofs --------------------------
(***************************************************************************)
(* Theorems about Traverse for every word size, memory and buffer.         *)
(***************************************************************************)
EXTENDS Traverse, TLAPS

-----------------------------------------------------------------------------
(* Arithmetic modulo the word.                                               *)

LEMMA Modulus == M \in Nat /\ M > 8 /\ 0 \in Word /\ 1 \in Word
  BY TraverseAssumption, MAssumption DEF Word, WordBytes

LEMMA WordIs == \A w : w \in Word <=> w \in Int /\ 0 <= w /\ w < M
  BY Modulus DEF Word

LEMMA PlusInWord ==
  ASSUME NEW a \in Int, NEW b \in Int
  PROVE  Plus(a, b) \in Word
  BY Modulus DEF Word, Plus

LEMMA Below ==
  ASSUME NEW x \in Int, 0 <= x, x < 3 * M
  PROVE  x % M = IF x < M THEN x ELSE IF x < 2 * M THEN x - M ELSE x - 2 * M
<1>1. CASE x < M
  BY <1>1, Modulus
<1>2. CASE x >= M /\ x < 2 * M
  <2>1. x = M * 1 + (x - M) /\ 0 <= x - M /\ x - M < M
    BY <1>2, Modulus
  <2>2. x % M = x - M
    BY <2>1, Modulus
  <2> QED  BY <1>2, <2>2, Modulus
<1>3. CASE x >= 2 * M
  <2>1. x = M * 2 + (x - 2 * M) /\ 0 <= x - 2 * M /\ x - 2 * M < M
    BY <1>3, Modulus
  <2>2. x % M = x - 2 * M
    BY <2>1, Modulus
  <2> QED  BY <1>3, <2>2, Modulus
<1> QED  BY <1>1, <1>2, <1>3, Modulus

(* Different offsets are different addresses.                                *)
LEMMA PlusInjective ==
  ASSUME NEW a \in Word, NEW i \in Word, NEW j \in Word, Plus(a, i) = Plus(a, j)
  PROVE  i = j
<1>1. /\ a + i < 3 * M /\ a + i \in Int /\ a + i >= 0
      /\ a + j < 3 * M /\ a + j \in Int /\ a + j >= 0
  BY WordIs, Modulus
<1>2. /\ (a + i) % M = IF a + i < M THEN a + i ELSE a + i - M
      /\ (a + j) % M = IF a + j < M THEN a + j ELSE a + j - M
  BY <1>1, Below, WordIs, Modulus
<1> QED  BY <1>2, WordIs, Modulus DEF Plus

(* Offsets add up.                                                           *)
LEMMA PlusPlus ==
  ASSUME NEW a \in Word, NEW i \in Word, NEW j \in Int, 0 <= j, a + i + j < 3 * M
  PROVE  Plus(Plus(a, i), j) = Plus(a, i + j)
<1>0. /\ a \in Int /\ i \in Int /\ M \in Int /\ 0 <= a /\ a < M /\ 0 <= i /\ i < M
      /\ a + (i + j) = (a + i) + j /\ M > 0
  BY WordIs, Modulus
<1> DEFINE x == a + i
           y == x + j
           z == x - M + j
<1>1. x \in Int /\ 0 <= x /\ x < 3 * M /\ y \in Int /\ 0 <= y /\ y < 3 * M
  BY <1>0
<1>2. x % M = IF x < M THEN x ELSE x - M
  BY <1>0, <1>1, Below
<1>3. CASE x < M
  BY <1>0, <1>2, <1>3 DEF Plus
<1>4. CASE x >= M
  <2>1. z \in Int /\ 0 <= z /\ z < 3 * M /\ z = y - M /\ y >= M
    BY <1>0, <1>1, <1>4
  <2>2. z % M = IF z < M THEN z ELSE IF z < 2 * M THEN z - M ELSE z - 2 * M
    BY <2>1, Below
  <2>3. y % M = IF y < M THEN y ELSE IF y < 2 * M THEN y - M ELSE y - 2 * M
    BY <1>1, Below
  <2>4. z < 2 * M
    BY <1>0, <1>1, <2>1
  <2> HIDE DEF z, y
  <2>5. z % M = y % M
    BY <1>0, <1>1, <2>1, <2>2, <2>3, <2>4
  <2> USE DEF z, y
  <2>6. Plus(Plus(a, i), j) = z % M /\ Plus(a, i + j) = y % M
    BY <1>0, <1>2, <1>4 DEF Plus
  <2> QED  BY <2>5, <2>6
<1> QED  BY <1>1, <1>3, <1>4, <1>0

LEMMA HalfIs ==
  ASSUME NEW sz \in Word
  PROVE  /\ Half(sz) \in Word /\ 2 * Half(sz) <= sz
         /\ Half(sz) = 0 <=> sz < 2
  BY WordIs, Modulus DEF Half
(* Every address can be reached from every other.                            *)
LEMMA ZeroReached ==
  ASSUME NEW a \in Word
  PROVE  \E k \in 0 .. M - 1 : Plus(a, k) = 0
<1>1. CASE a = 0
  BY <1>1, Below, Modulus DEF Plus
<1>2. CASE a # 0
  <2>1. M - a \in 0 .. M - 1 /\ a + (M - a) = M
    BY <1>2, WordIs, Modulus
  <2>2. M % M = 0
    BY Modulus
  <2> QED  BY <2>1, <2>2 DEF Plus
<1> QED  BY <1>1, <1>2

-----------------------------------------------------------------------------
(* Type correctness.                                                         *)

LEMMA InitContextType == InitContext \in Context /\ [InitContext EXCEPT !.cfg = CfgBits] \in Context
  BY Modulus DEF InitContext, InitBounds, Context, Bounds

LEMMA BndmkType ==
  ASSUME NEW c \in Context, NEW r \in BndRegs, NEW a \in Word, NEW b \in Word
  PROVE  Bndmk(c, r, a, b) \in Context
<1>1. Plus(a, b) \in Word
  BY PlusInWord, WordIs
<1>2. Complement(Plus(a, b)) \in Word
  BY <1>1, WordIs, Modulus DEF Complement
<1>3. BNDMK(a, b) \in Bounds
  BY <1>2 DEF BNDMK, Bounds
<1> QED  BY <1>3 DEF Bndmk, Context

LEMMA BoundsType ==
  ASSUME NEW c \in Context, NEW src \in Word, NEW half \in Word
  PROVE  BoundsOfHalves(c, src, half) \in Context
<1>1. Minus(half, 1) \in Word /\ Plus(src, half) \in Word
  BY WordIs, Modulus DEF Minus, Plus, Word
<1>2. "BND0" \in BndRegs /\ "BND1" \in BndRegs
  BY TraverseAssumption DEF Cursors
<1> QED  BY <1>1, <1>2, BndmkType DEF BoundsOfHalves

LEMMA SanitizedType ==
  ASSUME TypeOK
  PROVE  Sanitized \in [Cursors -> Bounds]
  BY Modulus DEF TypeOK, Sanitized, InitBounds, Bounds

LEMMA FetchedType ==
  ASSUME TypeOK, NEW r \in Cursors
  PROVE  Fetched(r) \in Word
<1>1. r \in BndRegs
  BY TraverseAssumption
<1> QED  BY <1>1 DEF TypeOK, Fetched, Context, Bounds

LEMMA InitType == Init => TypeOK
  BY InitContextType, Modulus DEF Init, TypeOK, Itself, InitBounds, Bounds

LEMMA PoppedType ==
  ASSUME NEW fn
  PROVE  Popped(fn) \in [Registers -> Registers] /\ Itself \in [Registers -> Registers]
  BY DEF Popped, Itself, Registers

LEMMA StepType == TypeOK /\ [Next]_traverseVars => TypeOK'
<1> SUFFICES ASSUME TypeOK, [Next]_traverseVars PROVE TypeOK'
  OBVIOUS
<1>1. CASE UNCHANGED traverseVars
  BY <1>1 DEF traverseVars, TypeOK
<1>2. ASSUME NEW fn \in Variants, NEW b \in Buffers, Call(fn, b)
      PROVE  TypeOK'
  <2>1. b \in [src : Word, sz : Word] /\ JunkWords \subseteq Word
    BY TraverseAssumption
  <2>2. Half(b.sz) \in Word /\ Plus(b.src, Half(b.sz)) \in Word
    BY <2>1, HalfIs, PlusInWord, WordIs
  <2>3. ctx' \in Context
    BY <1>2, <2>1, <2>2, BoundsType DEF Call, TypeOK
  <2>4. slot' \in [Cursors -> Bounds]
    <3>1. PICK w0 \in JunkWords, w1 \in JunkWords :
             slot' = [slot EXCEPT !["BND0"] = [lb |-> w0, ub |-> w0],
                                  !["BND1"] = [lb |-> w1, ub |-> w1]]
      BY <1>2 DEF Call
    <3>2. [lb |-> w0, ub |-> w0] \in Bounds /\ [lb |-> w1, ub |-> w1] \in Bounds
      BY <2>1 DEF Bounds
    <3> QED  BY <3>1, <3>2 DEF TypeOK
  <2> QED  BY <1>2, <2>1, <2>2, <2>3, <2>4, Modulus DEF Call, TypeOK
<1>3. CASE Round
  <2>1. Advanced(rdx) \in Word
    BY PlusInWord, WordIs, Modulus DEF Advanced, TypeOK
  <2>2. \A r \in Cursors : Plus(Fetched(r), rdx) \in Word
    BY FetchedType, PlusInWord, WordIs DEF TypeOK
  <2>3. <<Plus(Fetched("BND0"), rdx), Plus(Fetched("BND1"), rdx)>> \in Word \X Word
    BY <2>2 DEF Cursors
  <2> QED  BY <1>3, <2>1, <2>3, SanitizedType, PoppedType DEF Round, Fault, TypeOK
<1>4. CASE Resume
  BY <1>4, PoppedType, Modulus DEF Resume, TypeOK, InitBounds, Bounds
<1> QED  BY <1>1, <1>2, <1>3, <1>4 DEF Next

(* Every reachable state is well typed.                                      *)
THEOREM TypeCorrect == Spec => []TypeOK
  BY InitType, StepType, PTL DEF Spec

-----------------------------------------------------------------------------
(* The inductive invariant.                                                  *)

LEMMA InvariantInit == Init => TraverseInv
  BY DEF Init, TraverseInv, InContinue, CleanSlots, TraversesHalves, FaultsOnlyOutside

LEMMA PairsGrow ==
  ASSUME NEW n \in Nat
  PROVE  PairsUpTo(n + 1) = PairsUpTo(n) \cup {<<Plus(arg.src, n), Plus(Middle, n)>>}
<1>1. 0 .. (n + 1) - 1 = (0 .. n - 1) \cup {n}
  OBVIOUS
<1> QED  BY <1>1 DEF PairsUpTo

LEMMA CallInv ==
  ASSUME TypeOK, TypeOK', TraverseInv, NEW fn \in Variants, NEW b \in Buffers, Call(fn, b)
  PROVE  TraverseInv'
<1>1. b \in [src : Word, sz : Word]
  BY TraverseAssumption
<1>2. Half(b.sz) \in Word /\ Half(b.sz) >= 0
  BY <1>1, HalfIs, WordIs
<1>3. InContinue'
  <2> SUFFICES ASSUME HasPointers' PROVE InContinue'
    BY DEF InContinue
  <2>1. rdx' < Rounds'
    BY <1>1, <1>2, WordIs, Modulus DEF Call, Rounds
  <2>2. pairs' = PairsUpTo(rdx)'
    <3>1. 0 .. 0 - 1 = {}
      OBVIOUS
    <3> QED  BY <3>1 DEF Call, PairsUpTo
  <2>3. Fetched("BND0")' = arg'.src /\ Fetched("BND1")' = Middle'
    <3>1. CASE fn = "gptraverse"
      BY <3>1 DEF Call, Fetched, Middle
    <3>2. CASE fn # "gptraverse"
      <4>1. MpxOn(ctx') /\ variant' # "gptraverse"
        BY <3>2 DEF HasPointers, Call
      <4>2. ctx' = BoundsOfHalves(ctx, b.src, Half(b.sz)) /\ arg' = b
        BY <3>2 DEF Call
      <4>3. MpxOn(ctx)
        BY <4>1, <4>2 DEF BoundsOfHalves, Bndmk, MpxOn
      <4>4. "BND0" \in BndRegs /\ "BND1" \in BndRegs
        BY TraverseAssumption DEF Cursors
      <4> DEFINE c == [ctx EXCEPT !.bnd["BND0"] = BNDMK(b.src, Minus(Half(b.sz), 1))]
      <4>5. Bndmk(ctx, "BND0", b.src, Minus(Half(b.sz), 1)) = c
        BY <4>3 DEF Bndmk
      <4>6. MpxOn(c) /\ c.bnd["BND0"].lb = b.src
        BY <4>3, <4>4 DEF MpxOn, TypeOK, Context, BNDMK
      <4>7. ctx' = [c EXCEPT !.bnd["BND1"] = BNDMK(Plus(b.src, Half(b.sz)), Minus(Half(b.sz), 1))]
        BY <4>2, <4>5, <4>6 DEF BoundsOfHalves, Bndmk
      <4>8. ctx'.bnd["BND0"].lb = b.src /\ ctx'.bnd["BND1"].lb = Plus(b.src, Half(b.sz))
        BY <4>4, <4>6, <4>7 DEF TypeOK, Context, BNDMK
      <4> QED  BY <4>1, <4>2, <4>8 DEF Fetched, Middle
    <3> QED  BY <3>1, <3>2
  <2>4. \A p \in pairs' : p[1] \in Mapped
    BY DEF Call
  <2> QED  BY <2>1, <2>2, <2>3, <2>4 DEF InContinue
<1> QED  BY <1>3 DEF TraverseInv, Call, CleanSlots, TraversesHalves, FaultsOnlyOutside
(* The sums of a round, without the modulus of the intermediate ones.         *)
LEMMA RoundAddresses ==
  ASSUME TypeOK, pc = "continue", HasPointers, InContinue
  PROVE  /\ Plus(Fetched("BND0"), rdx) = Plus(arg.src, rdx)
         /\ Plus(Fetched("BND1"), rdx) = Plus(Middle, rdx)
         /\ Last(rdx) <=> rdx + 1 = Rounds
         /\ Half(arg.sz) \in Word
         /\ Rounds \in 1 .. M
<1>1. arg.src \in Word /\ Half(arg.sz) \in Word /\ rdx \in Word
  BY HalfIs DEF TypeOK
<1>2. Rounds \in 1 .. M /\ rdx < Rounds
  BY <1>1, WordIs, Modulus DEF Rounds, InContinue
<1>3. Advanced(rdx) = IF rdx + 1 = M THEN 0 ELSE rdx + 1
  BY <1>1, Below, WordIs, Modulus DEF Advanced, Plus
<1>4. Advanced(rdx) \in Word
  BY <1>1, <1>3, WordIs, Modulus
<1>5. Last(rdx) <=> Advanced(rdx) = Half(arg.sz)
  BY <1>1, <1>4, PlusInjective DEF Last, Middle, InContinue
<1>6. Advanced(rdx) = Half(arg.sz) <=> rdx + 1 = Rounds
  BY <1>1, <1>2, <1>3, WordIs, Modulus DEF Rounds
<1> QED  BY <1>1, <1>2, <1>5, <1>6 DEF InContinue

(* A read that does not fault begins at a mapped address.                     *)
LEMMA ReadableStart ==
  ASSUME NEW a \in Word, Readable(a)
  PROVE  a \in Mapped
<1>1. Plus(a, 0) = a
  BY Below, WordIs, Modulus DEF Plus
<1> QED  BY <1>1 DEF Readable, Bytes, WordBytes

(* The reads of a round lie within seven bytes of the two halves.             *)
LEMMA ReadsNear ==
  ASSUME TypeOK, pc = "continue", HasPointers, InContinue, Half(arg.sz) # 0
  PROVE  /\ Bytes(Plus(arg.src, rdx), WordBytes)
              \subseteq Bytes(arg.src, 2 * Half(arg.sz) + WordBytes - 1)
         /\ Bytes(Plus(Middle, rdx), WordBytes)
              \subseteq Bytes(arg.src, 2 * Half(arg.sz) + WordBytes - 1)
<1>1. /\ arg.src \in Word /\ rdx \in Word /\ arg.sz \in Word
      /\ Half(arg.sz) \in Word /\ 2 * Half(arg.sz) <= arg.sz /\ arg.sz < M
      /\ rdx < Half(arg.sz) /\ 0 <= rdx
  BY HalfIs, WordIs DEF TypeOK, InContinue, Rounds
<1>2. ASSUME NEW i \in 0 .. 7
      PROVE  /\ Plus(Plus(arg.src, rdx), i) = Plus(arg.src, rdx + i)
             /\ rdx + i \in 0 .. 2 * Half(arg.sz) + 6
  BY <1>1, PlusPlus, WordIs, Modulus
<1>3. ASSUME NEW i \in 0 .. 7
      PROVE  /\ Plus(Plus(Middle, rdx), i) = Plus(arg.src, Half(arg.sz) + rdx + i)
             /\ Half(arg.sz) + rdx + i \in 0 .. 2 * Half(arg.sz) + 6
  <2>1. Half(arg.sz) + rdx \in Word
    BY <1>1, WordIs, Modulus
  <2>2. Plus(Middle, rdx) = Plus(arg.src, Half(arg.sz) + rdx)
    BY <1>1, PlusPlus, WordIs, Modulus DEF Middle
  <2> DEFINE h == Half(arg.sz) + rdx
  <2>3. arg.src + h + i < 3 * M /\ 0 <= i /\ i \in Int
    BY <1>1, <2>1, WordIs, Modulus
  <2>4. Plus(Plus(arg.src, h), i) = Plus(arg.src, h + i)
    BY <1>1, <2>1, <2>3, PlusPlus
  <2> QED  BY <1>1, <2>2, <2>4, WordIs, Modulus
<1>4. 0 .. (2 * Half(arg.sz) + WordBytes - 1) - 1 = 0 .. 2 * Half(arg.sz) + 6
  <2>1. (2 * Half(arg.sz) + WordBytes - 1) - 1 = 2 * Half(arg.sz) + 6
    BY <1>1, WordIs DEF WordBytes
  <2> QED  BY <2>1
<1>5. 0 .. WordBytes - 1 = 0 .. 7
  BY DEF WordBytes
<1> DEFINE Near == Bytes(arg.src, 2 * Half(arg.sz) + WordBytes - 1)
<1>6. Near = {Plus(arg.src, j) : j \in 0 .. 2 * Half(arg.sz) + 6}
  BY <1>4 DEF Bytes
<1>7. \A a : Bytes(a, WordBytes) = {Plus(a, i) : i \in 0 .. 7}
  BY <1>5 DEF Bytes
<1>8. Bytes(Plus(arg.src, rdx), WordBytes) \subseteq Near
  BY <1>2, <1>6, <1>7
<1>9. Bytes(Plus(Middle, rdx), WordBytes) \subseteq Near
  BY <1>3, <1>6, <1>7
<1> QED  BY <1>8, <1>9

LEMMA FaultInv ==
  ASSUME TypeOK, TraverseInv, pc = "continue", Fault,
         ~(Readable(Plus(Fetched("BND0"), rdx)) /\ Readable(Plus(Fetched("BND1"), rdx)))
  PROVE  TraverseInv'
<1>1. FaultsOnlyOutside'
  <2> SUFFICES ASSUME HasPointers, Half(arg.sz) # 0
               PROVE  ~(Bytes(arg.src, 2 * Half(arg.sz) + WordBytes - 1) \subseteq Mapped)
    BY HalfIs DEF FaultsOnlyOutside, Fault, HasPointers, TypeOK
  <2>1. InContinue
    BY DEF TraverseInv
  <2> QED  BY <2>1, RoundAddresses, ReadsNear DEF Readable
<1>2. CleanSlots'
  BY DEF CleanSlots, Fault, Sanitized
<1> QED  BY <1>1, <1>2 DEF TraverseInv, Fault, InContinue, TraversesHalves

LEMMA ReadInv ==
  ASSUME TypeOK, TypeOK', TraverseInv, Round, pc' # "killed"
  PROVE  TraverseInv'
<1> DEFINE low == Plus(Fetched("BND0"), rdx)
           high == Plus(Fetched("BND1"), rdx)
<1>1. /\ pc = "continue" /\ Readable(low) /\ Readable(high)
      /\ pairs' = pairs \cup {<<low, high>>}
      /\ slot' = Sanitized /\ rdx' = Advanced(rdx)
      /\ IF Last(rdx) THEN pc' = "returned" /\ holds' = Popped(variant)
         ELSE UNCHANGED <<pc, holds>>
      /\ UNCHANGED <<variant, arg, rsi, ctx>>
  BY DEF Round, Fault
<1>2. CleanSlots'
  BY <1>1 DEF CleanSlots, Sanitized
<1>3. HasPointers' = HasPointers /\ Rounds' = Rounds /\ Middle' = Middle
  BY <1>1 DEF HasPointers, Rounds, Middle
<1>4. \A n : PairsUpTo(n)' = PairsUpTo(n)
  BY <1>1, <1>3 DEF PairsUpTo
<1>5. pc' = "continue" => holds' = Itself
  BY <1>1 DEF TraverseInv
<1>6. CASE ~HasPointers
  BY <1>1, <1>2, <1>3, <1>5, <1>6
  DEF TraverseInv, InContinue, TraversesHalves, FaultsOnlyOutside
<1>7. CASE HasPointers
  <2>1. /\ InContinue /\ rdx \in Nat /\ rdx < Rounds
        /\ low = Plus(arg.src, rdx) /\ high = Plus(Middle, rdx)
        /\ Last(rdx) <=> rdx + 1 = Rounds
        /\ Half(arg.sz) \in Word /\ Rounds \in 1 .. M
    BY <1>1, <1>7, RoundAddresses, WordIs DEF TraverseInv, InContinue, TypeOK
  <2>2. pairs' = PairsUpTo(rdx + 1)
    BY <1>1, <1>7, <2>1, PairsGrow DEF InContinue
  <2>3. \A p \in pairs' : p[1] \in Mapped
    <3>1. low \in Word
      BY <2>1, PlusInWord, WordIs DEF TypeOK
    <3> QED  BY <1>1, <1>7, <2>1, <3>1, ReadableStart DEF InContinue
  <2>4. rdx + 1 < M => Advanced(rdx) = rdx + 1
    BY <2>1, Below, Modulus DEF Advanced, Plus
  <2>5. CASE ~Last(rdx)
    <3>1. rdx + 1 < Rounds /\ rdx' = rdx + 1
      BY <1>1, <2>1, <2>4, <2>5, Modulus
    <3>2. Fetched("BND0")' = arg.src /\ Fetched("BND1")' = Middle
      BY <1>1, <1>7, <2>1 DEF Fetched, HasPointers, InContinue
    <3>3. InContinue'
      BY <1>1, <1>3, <1>4, <2>2, <2>3, <3>1, <3>2 DEF InContinue
    <3> QED  BY <1>1, <1>2, <1>5, <2>5, <3>3 DEF TraverseInv, TraversesHalves, FaultsOnlyOutside
  <2>6. CASE Last(rdx)
    <3>1. Half(arg.sz) # 0
      <4>1. SUFFICES ASSUME Half(arg.sz) = 0 PROVE FALSE
        OBVIOUS
      <4>2. rdx + 1 = M
        BY <2>1, <2>6, <4>1 DEF Rounds
      <4>3. \A k \in 0 .. M - 1 : <<Plus(arg.src, k), Plus(Middle, k)>> \in pairs'
        BY <2>2, <4>2 DEF PairsUpTo
      <4>4. PICK k \in 0 .. M - 1 : Plus(arg.src, k) = 0
        BY ZeroReached DEF TypeOK
      <4>5. 0 \in Mapped
        BY <2>3, <4>3, <4>4
      <4> QED  BY <4>5, TraverseAssumption
    <3>2. rdx + 1 = Half(arg.sz) /\ rdx' = Half(arg.sz)
      BY <1>1, <2>1, <2>4, <2>6, <3>1, WordIs, Modulus DEF Rounds
    <3>3. arg.sz >= 2
      BY <3>1, HalfIs, WordIs DEF TypeOK
    <3>4. /\ variant = "mpxtraverse" => slot' = [r \in Cursors |-> InitBounds] /\ holds' = Itself
          /\ variant = "gptraverse" => holds'["rcx"] = "rdx" /\ holds'["rdx"] = "rcx"
          /\ \A r \in Registers \ {"rcx", "rdx"} : holds'[r] = r
      BY <1>1, <2>6 DEF Sanitized, Popped, Itself, Registers
    <3>5. TraversesHalves'
      BY <1>1, <1>4, <2>2, <3>2, <3>3, <3>4 DEF TraversesHalves
    <3> QED  BY <1>1, <1>2, <2>6, <3>5 DEF TraverseInv, InContinue, FaultsOnlyOutside
  <2> QED  BY <2>5, <2>6
<1> QED  BY <1>6, <1>7

LEMMA InvariantStep == TypeOK /\ TypeOK' /\ TraverseInv /\ [Next]_traverseVars => TraverseInv'
<1> SUFFICES ASSUME TypeOK, TypeOK', TraverseInv, [Next]_traverseVars
             PROVE  TraverseInv'
  OBVIOUS
<1>1. CASE UNCHANGED traverseVars
  BY <1>1 DEF traverseVars, TraverseInv, InContinue, CleanSlots, TraversesHalves,
     FaultsOnlyOutside, HasPointers, Rounds, PairsUpTo, Middle, Fetched
<1>2. CASE \E fn \in Variants, b \in Buffers : Call(fn, b)
  BY <1>2, CallInv
<1>3. CASE Round
  <2>1. CASE pc' = "killed"
    BY <1>3, <2>1, FaultInv DEF Round
  <2>2. CASE pc' # "killed"
    BY <1>3, <2>2, ReadInv
  <2> QED  BY <2>1, <2>2
<1>4. CASE Resume
  BY <1>4 DEF Resume, TraverseInv, InContinue, CleanSlots, TraversesHalves, FaultsOnlyOutside
<1> QED  BY <1>1, <1>2, <1>3, <1>4 DEF Next

(* The inductive invariant.                                                  *)
THEOREM Invariant == Spec => [](TypeOK /\ TraverseInv)
  BY InitType, StepType, InvariantInit, InvariantStep, PTL DEF Spec

(* Every traversal that returns has read the two halves, and nothing else.    *)
THEOREM HalvesTraversed == Spec => []TraversesHalves
<1>1. TypeOK /\ TraverseInv => TraversesHalves
  BY DEF TraverseInv
<1> QED  BY <1>1, Invariant, PTL

(* A fault needs an unmapped byte within seven bytes of the buffer, a size      *)
(* below 2, or MPX off.                                                      *)
THEOREM FaultsThere == Spec => []FaultsOnlyOutside
<1>1. TypeOK /\ TraverseInv => FaultsOnlyOutside
  BY DEF TraverseInv
<1> QED  BY <1>1, Invariant, PTL
=============================================================================
