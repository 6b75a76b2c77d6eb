------------------------ MODULE StringFixture_proofs ------------------------
(***************************************************************************)
(* Theorems about StringFixture for buffers, benchmarks and bytes of every *)
(* size.  The invariant of the functions is that of SimplexString_proofs;  *)
(* here it is shown to survive the harness around them, and to say what    *)
(* the benchmarks run on and measure.                                      *)
(***************************************************************************)
EXTENDS StringFixture, SimplexString_proofs

LEMMA Sizing ==
  /\ Size \in Nat /\ Size >= 2 /\ 2 * Size <= MaxAddress /\ MaxAddress \in Nat
  /\ \A sz \in Sizes : sz \in Nat /\ sz > 0 /\ 2 * sz <= Size
  BY FixtureAssumption, Constants

\* The buffers are memory of the process.
LEMMA BuffersAreMemory ==
  ASSUME NEW p \in {NULL, 1, 1 + Size}, NEW j \in 0 .. Size - 1
  PROVE  /\ p \in Address \cup {NULL} /\ p \in 0 .. MaxAddress
         /\ p # NULL => p + j \in Address
  BY Sizing DEF Address, NULL

LEMMA BenchFacts ==
  ASSUME FixtureTypeOK
  PROVE  /\ bench.variant \in Variants /\ bench.fn \in StringFunctions
         /\ bench.sz \in Sizes /\ bench.sz \in Nat /\ bench.sz > 0 /\ 2 * bench.sz <= Size
         /\ s1 \in Address \cup {NULL} /\ s2 \in Address \cup {NULL}
         /\ s1 \in 0 .. 1 /\ s2 \in 0 .. MaxAddress
<1>1. bench \in Benchmarks
  BY DEF FixtureTypeOK
<1>2. bench.variant \in Variants /\ bench.fn \in StringFunctions /\ bench.sz \in Sizes
  BY <1>1 DEF Benchmarks
<1>3. 1 + Size \in 1 .. MaxAddress /\ 1 \in 1 .. MaxAddress
  BY Sizing
<1> QED  BY <1>2, <1>3, Sizing DEF FixtureTypeOK, Address, NULL

-----------------------------------------------------------------------------
\* What the benchmarks pass.

LEMMA ArgsAre ==
  ASSUME NEW fn \in StringFunctions, NEW sz
  PROVE  /\ fn \in {"memcmp", "memcpy"} =>
              Args(fn, sz) = [p |-> s1, q |-> s2, c |-> 0, n |-> sz]
         /\ fn = "memmove" =>
              Args(fn, sz) = [p |-> s1, q |-> s1 + (sz \div 4) + 1, c |-> 0, n |-> sz \div 2]
         /\ fn = "memset" => Args(fn, sz) = [p |-> s1, q |-> NULL, c |-> 1, n |-> sz]
         /\ fn = "memchr" => Args(fn, sz) = [p |-> s1, q |-> NULL, c |-> 0, n |-> sz]
<1>1. CASE fn = "memcmp"
  BY <1>1 DEF Args
<1>2. CASE fn = "memcpy"
  BY <1>2 DEF Args
<1>3. CASE fn = "memmove"
  BY <1>3 DEF Args, MovedBytes
<1>4. CASE fn = "memset"
  BY <1>4 DEF Args
<1>5. CASE fn = "memchr"
  BY <1>5 DEF Args
<1> QED  BY <1>1, <1>2, <1>3, <1>4, <1>5 DEF StringFunctions, TwoBuffers, OneBuffer

\* The quarter and the half of a size that memmove's arguments are made of stay in the
\* buffer.
LEMMA MovedInside ==
  ASSUME NEW sz \in Sizes
  PROVE  /\ sz \div 2 \in 0 .. sz /\ sz \div 4 \in 0 .. sz
         /\ (sz \div 4) + 1 + (sz \div 2) <= Size
         /\ (sz \div 4) + 1 <= Size
<1>1. sz \in Nat /\ sz > 0 /\ 2 * sz <= Size /\ Size \in Nat /\ Size >= 2
  BY Sizing
<1>2. /\ sz \div 2 \in Int /\ 2 * (sz \div 2) <= sz /\ sz \div 2 >= 0
      /\ sz \div 4 \in Int /\ 4 * (sz \div 4) <= sz /\ sz \div 4 >= 0
  BY <1>1
<1> QED  BY <1>1, <1>2

\* With its pointers, a benchmark passes what its function accepts.
LEMMA ArgsFit ==
  ASSUME FixtureTypeOK, ~NoPointers, NEW x, x = Args(bench.fn, bench.sz)
  PROVE  /\ x.p = s1 /\ s1 = 1 /\ x.p \in Address \cup {NULL}
         /\ x.q \in Address \cup {NULL} /\ x.c \in Int
         /\ x.n \in 0 .. MaxAddress /\ x.n <= Size
         /\ bench.fn \in {"memcmp", "memcpy"} => x.q = s2 /\ s2 = 1 + Size /\ x.n = bench.sz
         /\ bench.fn = "memmove" =>
              /\ x.q = s1 + (bench.sz \div 4) + 1 /\ x.q > s1 /\ x.q \in Int
              /\ x.q + x.n <= s1 + Size
         /\ bench.fn \in TwoBuffers => x.c = 0
         /\ bench.fn \in OneBuffer => x.q = NULL
         /\ bench.fn = "memchr" => x.c = 0 /\ x.n = bench.sz
<1>1. /\ bench.fn \in StringFunctions /\ bench.sz \in Sizes
      /\ bench.sz \in Nat /\ bench.sz > 0 /\ 2 * bench.sz <= Size
  BY BenchFacts
<1>2. s1 = 1 /\ (bench.fn \in {"memcmp", "memcpy"} => s2 = 1 + Size)
  BY DEF FixtureTypeOK, NoPointers
<1>3. /\ 1 \in Address /\ 1 + Size \in Address /\ bench.sz <= Size
      /\ \A k \in 0 .. Size : k \in 0 .. MaxAddress /\ 1 + k \in Address
  BY <1>1, Sizing DEF Address
<1>4. CASE bench.fn \in {"memcmp", "memcpy"}
  <2>1. x = [p |-> s1, q |-> s2, c |-> 0, n |-> bench.sz]
    BY <1>1, <1>4, ArgsAre
  <2> QED  BY <1>1, <1>2, <1>3, <1>4, <2>1, Sizing DEF OneBuffer
<1>5. CASE bench.fn = "memmove"
  <2>1. x = [p |-> s1, q |-> s1 + (bench.sz \div 4) + 1, c |-> 0, n |-> bench.sz \div 2]
    BY <1>1, <1>5, ArgsAre
  <2>2. /\ bench.sz \div 2 \in 0 .. bench.sz /\ bench.sz \div 4 \in 0 .. bench.sz
        /\ (bench.sz \div 4) + 1 + (bench.sz \div 2) <= Size
        /\ (bench.sz \div 4) + 1 <= Size
    BY <1>1, MovedInside
  <2>3. (bench.sz \div 4) + 1 \in 0 .. Size /\ bench.sz \div 2 \in 0 .. Size
    BY <1>1, <2>2, Sizing
  <2>4. s1 + (bench.sz \div 4) + 1 = 1 + ((bench.sz \div 4) + 1)
    BY <1>2, <2>3, <2>2
  <2>5. x.q \in Address
    BY <2>1, <2>3, <2>4, <1>3
  <2> QED  BY <1>1, <1>2, <1>3, <1>5, <2>1, <2>2, <2>3, <2>4, <2>5, Sizing DEF OneBuffer
<1>6. CASE bench.fn = "memset"
  <2>1. x = [p |-> s1, q |-> NULL, c |-> 1, n |-> bench.sz]
    BY <1>1, <1>6, ArgsAre
  <2> QED  BY <1>1, <1>2, <1>3, <1>6, <2>1, Sizing DEF TwoBuffers
<1>7. CASE bench.fn = "memchr"
  <2>1. x = [p |-> s1, q |-> NULL, c |-> 0, n |-> bench.sz]
    BY <1>1, <1>7, ArgsAre
  <2> QED  BY <1>1, <1>2, <1>3, <1>7, <2>1, Sizing DEF TwoBuffers
<1> QED  BY <1>1, <1>4, <1>5, <1>6, <1>7 DEF StringFunctions, TwoBuffers, OneBuffer

-----------------------------------------------------------------------------
\* The entry of a function from a body.

LEMMA ApplyEnters ==
  ASSUME NEW variant, NEW fn \in StringFunctions, NEW p, NEW q, NEW c, NEW n,
         fn \in TwoBuffers => c = 0, fn \in OneBuffer => q = NULL,
         Apply(variant, fn, p, q, c, n)
  PROVE  \E loop \in Loops : \E dd, ss : Enter(variant, fn, p, q, c, n, loop, dd, ss)
<1>1. CASE fn = "memcmp"
  BY <1>1 DEF Apply, Memcmp, Loops, TwoBuffers
<1>2. CASE fn = "memcpy"
  BY <1>2 DEF Apply, Memcpy, Loops, TwoBuffers
<1>3. CASE fn = "memmove"
  BY <1>3 DEF Apply, Memmove, Loops, TwoBuffers
<1>4. CASE fn = "memset"
  BY <1>4 DEF Apply, Memset, Loops, OneBuffer
<1>5. CASE fn = "memchr"
  BY <1>5 DEF Apply, Memchr, Loops, OneBuffer
<1> QED  BY <1>1, <1>2, <1>3, <1>4, <1>5 DEF StringFunctions, TwoBuffers, OneBuffer

LEMMA ApplyInv ==
  ASSUME TypeOK, NEW variant \in Variants, NEW fn \in StringFunctions,
         NEW p \in Address \cup {NULL}, NEW q \in Address \cup {NULL},
         NEW c \in Int, NEW n \in 0 .. MaxAddress,
         variant = "simplex" => bnd["BND1"] = p,
         Apply(variant, fn, p, q, c, n)
  PROVE  TypeOK' /\ StringInv'
<1>1. CASE fn = "memcmp"
  BY <1>1, MemcmpEnters DEF Apply
<1>2. CASE fn = "memcpy"
  <2>1. Enter(variant, fn, p, q, 0, n, "forward", p, q)
    BY <1>2 DEF Apply, Memcpy
  <2> QED  BY <1>2, <2>1, ForwardEnters
<1>3. CASE fn = "memmove"
  BY <1>3, MemmoveEnters DEF Apply
<1>4. CASE fn = "memset"
  BY <1>4, MemsetEnters DEF Apply
<1>5. CASE fn = "memchr"
  BY <1>5, MemchrEnters DEF Apply
<1> QED  BY <1>1, <1>2, <1>3, <1>4, <1>5 DEF StringFunctions, TwoBuffers, OneBuffer

\* In both variants the function is called with the arguments of the libgcc one.
LEMMA IterateCalls ==
  ASSUME FixtureTypeOK, InRegisters, Iterate, NEW x, x = Args(bench.fn, bench.sz)
  PROVE  /\ Apply(bench.variant, bench.fn, x.p, x.q, x.c, x.n)
         /\ bench.variant = "simplex" => bnd["BND1"] = x.p
<1>1. ~NoPointers /\ phase \in {"up", "iterating"} /\ TypeOK
  BY DEF Iterate, FixtureTypeOK
<1>2. bench.fn \in StringFunctions /\ bench.variant \in Variants
  BY BenchFacts
<1>3. CASE bench.variant = "libgcc"
  BY <1>3 DEF Iterate, LibgccBody
<1>4. CASE bench.variant = "simplex"
  <2>1. mpx /\ SimplexBody(bench.fn, bench.sz)
    BY <1>1, <1>4 DEF Iterate, NoPointers
  <2>2. /\ bnd = RegistersFor(bench.fn, bench.sz)
        /\ Apply("simplex", bench.fn, bnd["BND1"],
                 IF bench.fn \in TwoBuffers THEN bnd["BND2"] ELSE NULL, x.c, x.n)
    BY <2>1 DEF SimplexBody
  <2>3. bnd["BND1"] = s1
    BY <1>1, <2>1 DEF InRegisters
  <2>4. x.p = s1 /\ (bench.fn \in OneBuffer => x.q = NULL)
    BY <1>1, ArgsFit
  <2>5. bench.fn \in TwoBuffers => bnd["BND2"] = x.q
    <3>1. CASE bench.fn = "memmove"
      <4>1. bnd["BND2"] = s1 + (bench.sz \div 4) + 1
        BY <1>1, <2>2, <3>1 DEF RegistersFor, TypeOK
      <4> QED  BY <1>1, <3>1, <4>1, ArgsFit
    <3>2. CASE bench.fn \in {"memcmp", "memcpy"}
      <4>1. bnd["BND2"] = s2
        BY <1>1, <2>1, <3>2 DEF InRegisters
      <4> QED  BY <1>1, <3>2, <4>1, ArgsFit
    <3> QED  BY <3>1, <3>2 DEF TwoBuffers
  <2>6. (IF bench.fn \in TwoBuffers THEN bnd["BND2"] ELSE NULL) = x.q
    BY <1>2, <2>4, <2>5 DEF StringFunctions
  <2> QED  BY <1>4, <2>2, <2>3, <2>4, <2>6
<1> QED  BY <1>2, <1>3, <1>4 DEF Variants

\* What the harness knows does not change while a function runs.
LEMMA ArgsKept ==
  ASSUME UNCHANGED <<s1, s2>>, UNCHANGED bench
  PROVE  Args(bench.fn, bench.sz)' = Args(bench.fn, bench.sz)
  BY DEF Args

LEMMA IterateInv ==
  ASSUME FixtureTypeOK, InFixture, Iterate
  PROVE  FixtureTypeOK' /\ InFixture'
<1> DEFINE x == Args(bench.fn, bench.sz)
<1>1. /\ ~NoPointers /\ phase \in {"up", "iterating"} /\ pc = "idle" /\ phase' = "iterating"
      /\ UNCHANGED <<s1, s2, mpx, bench>> /\ TypeOK /\ InRegisters /\ InMemory
  BY DEF Iterate, FixtureTypeOK, InFixture
<1>2. bench.fn \in StringFunctions /\ bench.variant \in Variants
  BY BenchFacts
<1>3. /\ x.p \in Address \cup {NULL} /\ x.q \in Address \cup {NULL}
      /\ x.c \in Int /\ x.n \in 0 .. MaxAddress
      /\ bench.fn \in TwoBuffers => x.c = 0
      /\ bench.fn \in OneBuffer => x.q = NULL
  BY <1>1, ArgsFit
<1>4. /\ Apply(bench.variant, bench.fn, x.p, x.q, x.c, x.n)
      /\ bench.variant = "simplex" => bnd["BND1"] = x.p
  BY <1>1, IterateCalls
<1>5. TypeOK' /\ StringInv'
  BY <1>1, <1>2, <1>3, <1>4, ApplyInv
<1>6. PICK loop \in Loops :
        \E dd, ss : Enter(bench.variant, bench.fn, x.p, x.q, x.c, x.n, loop, dd, ss)
  BY <1>2, <1>3, <1>4, ApplyEnters
<1>7. /\ UNCHANGED <<mem, bnd>>
      /\ req' = [fn |-> bench.fn, variant |-> bench.variant,
                 p |-> x.p, q |-> x.q, c |-> x.c, n |-> x.n]
  BY <1>6 DEF Enter
<1>8. x' = x
  BY <1>1, ArgsKept
<1>9. InCall'
  BY <1>1, <1>7, <1>8 DEF InCall
<1>10. InPhase'
  BY <1>1 DEF InPhase, NoPointers
<1>11. InRegisters'
  BY <1>1, <1>7 DEF InRegisters, RegistersFor
<1>12. InMemory'
  <2>1. phase' = "iterating" /\ mem' = mem /\ s1' = s1 /\ s2' = s2 /\ bench' = bench
    BY <1>1, <1>7
  <2>2. CASE phase = "up" \/ bench.fn \in {"memcmp", "memchr"}
    BY <1>1, <2>1, <2>2 DEF InMemory
  <2>3. CASE bench.fn \notin {"memcmp", "memchr"}
    BY <2>1, <2>3 DEF InMemory
  <2> QED  BY <2>2, <2>3
<1>13. FixtureTypeOK'
  BY <1>1, <1>5 DEF FixtureTypeOK
<1> QED  BY <1>5, <1>9, <1>10, <1>11, <1>12, <1>13 DEF InFixture

-----------------------------------------------------------------------------
\* The steps of the function that runs.

\* A step of a loop leaves the call and the registers alone, and those of memcmp and
\* memchr the memory too.
LEMMA LoopStepKeeps ==
  ASSUME StringInv, LoopStep
  PROVE  /\ pc \in Loops /\ UNCHANGED <<bnd, req>>
         /\ req.fn \in {"memcmp", "memchr"} => UNCHANGED mem
<1>1. CASE CompareByte
  BY <1>1 DEF CompareByte, Answer, Advance, Loops
<1>2. CASE CopyForward
  BY <1>2 DEF CopyForward, Advance, Loops, StringInv, InForward
<1>3. CASE CopyBackward
  BY <1>3 DEF CopyBackward, Advance, Loops, StringInv, InBackward
<1>4. CASE FillByte
  BY <1>4 DEF FillByte, Advance, Loops, StringInv, InFill
<1>5. CASE SearchByte
  BY <1>5 DEF SearchByte, Answer, Advance, Loops
<1>6. CASE LoopEnds
  BY <1>6 DEF LoopEnds, Answer, Loops
<1> QED  BY <1>1, <1>2, <1>3, <1>4, <1>5, <1>6 DEF LoopStep

LEMMA RunningInv ==
  ASSUME FixtureTypeOK, InFixture, Running
  PROVE  FixtureTypeOK' /\ InFixture'
<1>1. TypeOK /\ StringInv /\ LoopStep /\ UNCHANGED <<s1, s2, phase, mpx, bench>>
  BY DEF FixtureTypeOK, InFixture, Running, fixtureVars
<1>2. TypeOK' /\ StringInv'
  BY <1>1, NextInv DEF Next
<1>3. /\ pc # "idle" /\ UNCHANGED <<bnd, req>>
      /\ req.fn \in {"memcmp", "memchr"} => UNCHANGED mem
  BY <1>1, LoopStepKeeps DEF Loops
<1>4. phase = "iterating" /\ ~NoPointers /\ req.fn = bench.fn
  BY <1>3 DEF InFixture, InPhase, InCall
<1>5. InPhase'
  BY <1>1, <1>4 DEF InPhase, NoPointers
<1>6. InRegisters'
  BY <1>1, <1>3 DEF InFixture, InRegisters, RegistersFor
<1>7. Args(bench.fn, bench.sz)' = Args(bench.fn, bench.sz)
  BY <1>1, ArgsKept
<1>8. InCall'
  BY <1>1, <1>3, <1>7 DEF InFixture, InCall
<1>9. InMemory'
  BY <1>1, <1>3, <1>4 DEF InFixture, InMemory
<1>10. FixtureTypeOK'
  BY <1>1, <1>2 DEF FixtureTypeOK
<1> QED  BY <1>2, <1>5, <1>6, <1>8, <1>9, <1>10 DEF InFixture

LEMMA ReturnedInv ==
  ASSUME FixtureTypeOK, InFixture, Returned
  PROVE  FixtureTypeOK' /\ InFixture'
<1>1. /\ TypeOK /\ StringInv /\ Resume /\ UNCHANGED <<s1, s2, phase, mpx, bench>>
      /\ pc = "returned" /\ pc' = "idle" /\ UNCHANGED <<mem, bnd>>
  BY DEF FixtureTypeOK, InFixture, Returned, fixtureVars, Resume
<1>2. TypeOK' /\ StringInv'
  BY <1>1, OutsideCalls
<1>3. InPhase'
  BY <1>1 DEF InFixture, InPhase, NoPointers
<1>4. InRegisters' /\ InCall' /\ InMemory'
  BY <1>1 DEF InFixture, InRegisters, RegistersFor, InCall, InMemory
<1>5. FixtureTypeOK'
  BY <1>1, <1>2 DEF FixtureTypeOK
<1> QED  BY <1>2, <1>3, <1>4, <1>5 DEF InFixture

-----------------------------------------------------------------------------
\* What SetUp makes of the buffers.

LEMMA RandomIsByte ==
  /\ Random \subseteq Byte /\ Random \subseteq Nat /\ 0 \in Byte
  /\ \A b \in Byte : Inverted(b) \in Byte
  /\ \A b \in Random : Inverted(b) > b /\ b > 0
<1>1. Base \in Nat /\ Base > 0 /\ Base \div 2 \in Nat /\ 2 * (Base \div 2) <= Base
  BY Constants
<1> QED  BY <1>1 DEF Random, Byte, Inverted

LEMMA RandomizeIs ==
  ASSUME NEW m \in [Address -> Byte], NEW p \in {NULL, 1},
         NEW f \in [0 .. Size - 2 -> Random], NEW r, r = randomize(m, p, f)
  PROVE  /\ r \in [Address -> Byte]
         /\ p # NULL => r[p + Size - 1] = 0 /\ \A j \in 0 .. Size - 2 : r[p + j] \in Random
<1>1. CASE p = NULL
  BY <1>1 DEF randomize
<1>2. CASE p # NULL
  <2>1. p = 1 /\ p \in Int /\ Size \in Nat /\ Size >= 2
    BY <1>2, Sizing
  <2>2. r = [a \in Address |->
               IF a \notin Region(p, Size) THEN m[a]
               ELSE IF a = p + Size - 1 THEN 0 ELSE f[a - p]]
    BY <1>2 DEF randomize
  <2>3. ASSUME NEW a \in Address PROVE r[a] \in Byte
    <3>1. CASE a \notin Region(p, Size) \/ a = p + Size - 1
      BY <2>2, <2>3, <3>1, RandomIsByte
    <3>2. CASE a \in Region(p, Size) /\ a # p + Size - 1
      <4>1. a - p \in 0 .. Size - 2
        BY <2>1, <3>2 DEF Region, Address
      <4>2. r[a] = f[a - p]
        BY <2>2, <2>3, <3>2
      <4> QED  BY <4>1, <4>2, RandomIsByte
    <3> QED  BY <3>1, <3>2
  <2>4. r \in [Address -> Byte]
    BY <2>2, <2>3
  <2>5. r[p + Size - 1] = 0
    <3>1. p + Size - 1 \in Address /\ p + Size - 1 \in Region(p, Size)
      BY <2>1, Sizing DEF Address, Region
    <3> QED  BY <2>2, <3>1
  <2>6. ASSUME NEW j \in 0 .. Size - 2 PROVE r[p + j] \in Random
    <3>1. /\ p + j \in Address /\ p + j \in Region(p, Size)
          /\ p + j # p + Size - 1 /\ (p + j) - p = j
      BY <2>1, Sizing DEF Address, Region
    <3> QED  BY <2>2, <3>1
  <2> QED  BY <2>4, <2>5, <2>6
<1> QED  BY <1>1, <1>2

LEMMA CorruptIs ==
  ASSUME NEW m \in [Address -> Byte], NEW src \in {NULL, 1}, NEW dst \in {NULL, 1 + Size},
         NEW i \in 0 .. Size - 1, NEW r, r = corrupt(m, dst, src, i)
  PROVE  /\ r \in [Address -> Byte]
         /\ src # NULL => \A j \in 0 .. Size - 1 : r[src + j] = m[src + j]
         /\ src # NULL /\ dst # NULL =>
              \A j \in 0 .. Size - 1 :
                r[dst + j] = IF j = i THEN Inverted(m[src + j]) ELSE m[src + j]
<1> DEFINE c == IF src = NULL \/ dst = NULL THEN m ELSE Copied(m, dst, src)
<1>1. CASE dst = NULL
  BY <1>1, Sizing DEF corrupt
<1>2. CASE dst # NULL
  <2>1. /\ dst = 1 + Size /\ dst \in Int /\ Size \in Nat /\ Size >= 2 /\ src \in Int
        /\ src # NULL => src = 1
        /\ dst + i \in Address
    BY <1>2, Sizing DEF Address, NULL
  <2>2. c \in [Address -> Byte]
    <3>1. CASE src = NULL
      BY <3>1
    <3>2. CASE src # NULL
      <4>1. c = [a \in Address |-> IF a \in Region(dst, Size) THEN m[a - dst + src] ELSE m[a]]
        BY <1>2, <3>2 DEF Copied
      <4>2. \A a \in Region(dst, Size) : a - dst + src \in Address
        BY <2>1, <3>2, Sizing DEF Region, Address
      <4> QED  BY <4>1, <4>2
    <3> QED  BY <3>1, <3>2
  <2>3. r = [c EXCEPT ![dst + i] = Inverted(c[dst + i])]
    BY <1>2 DEF corrupt
  <2>4. r \in [Address -> Byte]
    <3>1. c[dst + i] \in Byte
      BY <2>1, <2>2
    <3>2. Inverted(c[dst + i]) \in Byte
      BY <3>1, RandomIsByte
    <3> HIDE DEF c
    <3> QED  BY <2>2, <2>3, <3>2
  <2>5. ASSUME src # NULL, NEW j \in 0 .. Size - 1
        PROVE  /\ r[src + j] = m[src + j]
               /\ r[dst + j] = IF j = i THEN Inverted(m[src + j]) ELSE m[src + j]
    <3>1. /\ src + j \in Address /\ dst + j \in Address
          /\ src + j \notin Region(dst, Size) /\ dst + j \in Region(dst, Size)
          /\ (dst + j) - dst + src = src + j
          /\ src + j # dst + i /\ (dst + j = dst + i <=> j = i)
      BY <2>1, <2>5, Sizing DEF Address, Region
    <3>2. c[src + j] = m[src + j] /\ c[dst + j] = m[src + j]
      BY <1>2, <2>5, <3>1 DEF Copied
    <3> HIDE DEF c
    <3> QED  BY <2>2, <2>3, <3>1, <3>2
  <2> QED  BY <2>4, <2>5
<1> QED  BY <1>1, <1>2

-----------------------------------------------------------------------------
\* The steps of the harness.

\* With no function running there is nothing to say about one.
LEMMA IdleString ==
  ASSUME pc' = "idle"
  PROVE  StringInv' /\ InCall'
  BY DEF StringInv, InLoop, InCompare, InForward, InBackward, InFill, InSearch,
         InReturned, AsStringH, NeverFound, Loops, InCall

LEMMA SetUpInv ==
  ASSUME FixtureTypeOK, InFixture, SetUp
  PROVE  FixtureTypeOK' /\ InFixture'
<1>1. /\ pc = "idle" /\ pc' = "idle" /\ phase' = "up" /\ TypeOK
      /\ s1' \in {NULL, 1} /\ s2' \in {NULL, 1 + Size}
      /\ mpx' \in BOOLEAN /\ bench' \in Benchmarks /\ old' = mem'
      /\ bnd' = (IF mpx' THEN [bnd EXCEPT !["BND1"] = s1', !["BND2"] = s2'] ELSE bnd)
      /\ UNCHANGED <<pc, d, s, len, ret, req>>
  BY DEF FixtureTypeOK, InFixture, InPhase, SetUp
<1>2. PICK f \in [0 .. Size - 2 -> Random], i \in 0 .. Size - 1 :
        mem' = corrupt(randomize(mem, s1', f), s2', s1', i)
  BY DEF SetUp
<1> DEFINE r == randomize(mem, s1', f)
<1>3. /\ r \in [Address -> Byte]
      /\ s1' # NULL => r[s1' + Size - 1] = 0 /\ \A j \in 0 .. Size - 2 : r[s1' + j] \in Random
  BY <1>1, RandomizeIs DEF TypeOK
<1>4. mem' = corrupt(r, s2', s1', i)
  BY <1>2
<1> HIDE DEF r
<1>5. /\ mem' \in [Address -> Byte]
      /\ s1' # NULL => \A j \in 0 .. Size - 1 : mem'[s1' + j] = r[s1' + j]
      /\ s1' # NULL /\ s2' # NULL =>
           \A j \in 0 .. Size - 1 :
             mem'[s2' + j] = IF j = i THEN Inverted(r[s1' + j]) ELSE r[s1' + j]
  BY <1>1, <1>3, <1>4, CorruptIs
<1>6. ASSUME s1' # NULL
      PROVE  mem'[s1' + Size - 1] = 0 /\ \A j \in 0 .. Size - 2 : mem'[s1' + j] \in Random
  <2>1. /\ Size - 1 \in 0 .. Size - 1 /\ s1' + (Size - 1) = s1' + Size - 1
        /\ \A j \in 0 .. Size - 2 : j \in 0 .. Size - 1
    BY <1>1, Sizing DEF NULL
  <2> QED  BY <1>3, <1>5, <1>6, <2>1
<1>7. ASSUME s1' # NULL, s2' # NULL
      PROVE  \A j \in 0 .. Size - 1 :
               IF j = i THEN mem'[s1' + j] + mem'[s2' + j] = Base - 1
               ELSE mem'[s2' + j] = mem'[s1' + j]
  <2>1. ASSUME NEW j \in 0 .. Size - 1
        PROVE  IF j = i THEN mem'[s1' + j] + mem'[s2' + j] = Base - 1
               ELSE mem'[s2' + j] = mem'[s1' + j]
    <3>1. mem'[s2' + j] = IF j = i THEN Inverted(mem'[s1' + j]) ELSE mem'[s1' + j]
      BY <1>5, <1>7
    <3>2. mem'[s1' + j] \in Int
      <4>1. s1' + j \in Address
        BY <1>1, <1>7, Sizing DEF Address
      <4> QED  BY <1>5, <4>1, Constants DEF Byte
    <3> QED  BY <3>1, <3>2, Constants DEF Inverted
  <2> QED  BY <2>1
<1>8. InMemory'
  BY <1>6, <1>7 DEF InMemory
<1>9. bnd' \in [{"BND1", "BND2"} -> Address \cup {NULL}]
  <2>1. s1' \in Address \cup {NULL} /\ s2' \in Address \cup {NULL}
    BY <1>1, Sizing DEF Address, NULL
  <2> QED  BY <1>1, <2>1 DEF TypeOK
<1>10. TypeOK'
  BY <1>1, <1>5, <1>9 DEF TypeOK
<1>11. FixtureTypeOK'
  BY <1>1, <1>10 DEF FixtureTypeOK
<1>12. InRegisters'
  BY <1>1 DEF InRegisters, TypeOK
<1>13. InPhase'
  BY <1>1 DEF InPhase
<1> QED  BY <1>1, <1>8, <1>11, <1>12, <1>13, IdleString DEF InFixture

LEMMA SetRegistersInv ==
  ASSUME FixtureTypeOK, InFixture, SetRegisters
  PROVE  FixtureTypeOK' /\ InFixture'
<1>1. /\ phase \in {"up", "iterating"} /\ pc = "idle" /\ mpx /\ s1 # NULL /\ TypeOK
      /\ bnd # RegistersFor(bench.fn, bench.sz)
      /\ bnd' = RegistersFor(bench.fn, bench.sz)
      /\ UNCHANGED <<mem, pc, d, s, len, ret, req, old>>
      /\ UNCHANGED <<s1, s2, phase, mpx, bench>>
  BY DEF FixtureTypeOK, SetRegisters, fixtureVars
<1>2. bench.fn = "memmove"
  BY <1>1 DEF RegistersFor
<1>3. bnd' = [bnd EXCEPT !["BND1"] = s1, !["BND2"] = s1 + (bench.sz \div 4) + 1]
  BY <1>1, <1>2 DEF RegistersFor
<1>4. s1 = 1 /\ s1 \in Address /\ s1 + (bench.sz \div 4) + 1 \in Address
  <2>1. (bench.sz \div 4) + 1 \in Nat /\ (bench.sz \div 4) + 1 <= Size /\ s1 = 1
    BY <1>1, BenchFacts, MovedInside DEF FixtureTypeOK
  <2>2. s1 + (bench.sz \div 4) + 1 = 1 + ((bench.sz \div 4) + 1)
    BY <2>1, BenchFacts
  <2> HIDE DEF NULL
  <2> QED  BY <2>1, <2>2, Sizing DEF Address
<1>5. bnd' \in [{"BND1", "BND2"} -> Address \cup {NULL}]
  BY <1>1, <1>3, <1>4 DEF TypeOK
<1>6. FixtureTypeOK'
  BY <1>1, <1>5 DEF FixtureTypeOK, TypeOK
<1>7. /\ bnd'["BND1"] = s1' /\ bench'.fn = "memmove"
      /\ bnd' = [bnd' EXCEPT !["BND1"] = s1', !["BND2"] = s1' + (bench'.sz \div 4) + 1]
  BY <1>1, <1>2, <1>3, <1>5 DEF TypeOK
<1>8. InRegisters'
  BY <1>7 DEF InRegisters, RegistersFor
<1>9. InPhase' /\ InMemory'
  BY <1>1 DEF InFixture, InPhase, NoPointers, InMemory
<1> QED  BY <1>1, <1>6, <1>8, <1>9, IdleString DEF InFixture

LEMMA IterateWithoutPointersInv ==
  ASSUME FixtureTypeOK, InFixture, IterateWithoutPointers
  PROVE  FixtureTypeOK' /\ InFixture'
<1>1. /\ pc = "idle" /\ phase' = "undefined"
      /\ UNCHANGED <<mem, bnd, pc, d, s, len, ret, req, old>>
      /\ UNCHANGED <<s1, s2, mpx, bench>>
  BY DEF IterateWithoutPointers, stringVars
<1>2. FixtureTypeOK'
  BY <1>1 DEF FixtureTypeOK, TypeOK
<1>3. InPhase' /\ InRegisters' /\ InMemory'
  BY <1>1 DEF InPhase, InRegisters, InMemory
<1> QED  BY <1>1, <1>2, <1>3, IdleString DEF InFixture

LEMMA TearDownInv ==
  ASSUME FixtureTypeOK, InFixture, TearDown
  PROVE  FixtureTypeOK' /\ InFixture'
<1>1. /\ pc = "idle" /\ pc' = "idle" /\ phase' = "down" /\ mpx' = FALSE
      /\ s1' = NULL /\ s2' = NULL /\ bnd' = [r \in {"BND1", "BND2"} |-> NULL]
      /\ mem' = [a \in Address |-> 0] /\ old' = mem'
      /\ UNCHANGED <<d, s, len, ret, req, bench>>
  BY DEF TearDown
<1>2. FixtureTypeOK'
  BY <1>1, RandomIsByte DEF FixtureTypeOK, TypeOK
<1>3. InPhase' /\ InRegisters' /\ InMemory'
  BY <1>1 DEF InPhase, InRegisters, InMemory
<1> QED  BY <1>1, <1>2, <1>3, IdleString DEF InFixture

-----------------------------------------------------------------------------
LEMMA FixtureInitInv == FixtureInit => FixtureTypeOK /\ InFixture
<1> SUFFICES ASSUME FixtureInit PROVE FixtureTypeOK /\ InFixture
  OBVIOUS
<1>1. TypeOK /\ StringInv
  BY InitInv DEF FixtureInit
<1>2. pc = "idle" /\ phase = "down"
  BY DEF FixtureInit, Init
<1>3. FixtureTypeOK
  BY <1>1 DEF FixtureInit, FixtureTypeOK
<1> QED  BY <1>1, <1>2, <1>3 DEF InFixture, InPhase, InRegisters, InCall, InMemory

LEMMA FixtureNextInv ==
  FixtureTypeOK /\ InFixture /\ [FixtureNext]_allVars => FixtureTypeOK' /\ InFixture'
<1> SUFFICES ASSUME FixtureTypeOK, InFixture, [FixtureNext]_allVars
             PROVE  FixtureTypeOK' /\ InFixture'
  OBVIOUS
<1>1. CASE SetUp
  BY <1>1, SetUpInv
<1>2. CASE SetRegisters
  BY <1>2, SetRegistersInv
<1>3. CASE Iterate
  BY <1>3, IterateInv
<1>4. CASE IterateWithoutPointers
  BY <1>4, IterateWithoutPointersInv
<1>5. CASE Running
  BY <1>5, RunningInv
<1>6. CASE Returned
  BY <1>6, ReturnedInv
<1>7. CASE TearDown
  BY <1>7, TearDownInv
<1>8. CASE UNCHANGED allVars
  <2>1. UNCHANGED stringVars /\ UNCHANGED <<s1, s2, phase, mpx, bench>>
    BY <1>8 DEF allVars, fixtureVars
  <2>2. TypeOK' /\ StringInv'
    BY <2>1, NextInv DEF FixtureTypeOK, InFixture
  <2>3. FixtureTypeOK'
    BY <2>1, <2>2 DEF FixtureTypeOK
  <2>4. Args(bench.fn, bench.sz)' = Args(bench.fn, bench.sz)
    BY <2>1, ArgsKept
  <2>5. InPhase' /\ InRegisters' /\ InCall' /\ InMemory'
    BY <2>1, <2>4 DEF stringVars, InFixture, InPhase, NoPointers, InRegisters, RegistersFor,
                      InCall, InMemory
  <2> QED  BY <2>2, <2>3, <2>5 DEF InFixture
<1> QED  BY <1>1, <1>2, <1>3, <1>4, <1>5, <1>6, <1>7, <1>8 DEF FixtureNext

LEMMA FixtureAlways == FixtureSpec => [](FixtureTypeOK /\ InFixture)
  BY FixtureInitInv, FixtureNextInv, PTL DEF FixtureSpec

(* Every state of the harness is well typed: the registers hold a buffer, an  *)
(* address inside one, or nothing, and no body stores more than a byte.      *)
THEOREM FixtureTypes == FixtureSpec => []FixtureTypeOK
  BY FixtureAlways, PTL

(* The inductive invariant of the harness: whatever order its benchmarks run  *)
(* in, a function that runs is the one of the benchmark on its arguments.    *)
THEOREM FixtureInvariant == FixtureSpec => []FixtureInv
<1>1. FixtureTypeOK /\ InFixture => FixtureInv
  BY DEF FixtureInv
<1> QED  BY <1>1, FixtureAlways, PTL

(* In every iteration, a simplex benchmark does to the same bytes what its    *)
(* libgcc twin does, for buffers and arguments of any size.                  *)
THEOREM TwinsDoAgree == FixtureSpec => []TwinsAgree
<1>1. FixtureTypeOK /\ InFixture => TwinsAgree
  BY DEF InFixture, InCall, TwinsAgree
<1> QED  BY <1>1, FixtureAlways, PTL

(* The functions do under the harness what string.h says, as they do for any  *)
(* other client; the int of memchr's benchmarks is a byte.                    *)
THEOREM BodiesAreCorrect == FixtureSpec => []AsStringH
<1>1. InFixture => AsStringH
  BY DEF InFixture, StringInv, InReturned
<1> QED  BY <1>1, FixtureAlways, PTL

(* No body reads or writes outside the buffers of the fixture, memmove's      *)
(* shifted source included.                                                  *)
THEOREM BodiesStayInBuffers == FixtureSpec => []BodiesInBuffers
<1>1. FixtureTypeOK /\ InFixture => BodiesInBuffers
  <2> SUFFICES ASSUME FixtureTypeOK, InFixture, phase = "iterating", pc \in Loops, len > 0
               PROVE  /\ d \in Region(s1, Size)
                      /\ bench.fn \in {"memcmp", "memcpy"} => s \in Region(s2, Size)
                      /\ bench.fn = "memmove" => s \in Region(s1, Size)
    BY DEF BodiesInBuffers
  <2>1. /\ d \in Region(req.p, req.n)
        /\ req.fn \in TwoBuffers => s \in Region(req.q, req.n)
    BY CursorsInBuffers DEF FixtureTypeOK, InFixture, AccessesInBuffers
  <2> DEFINE x == Args(bench.fn, bench.sz)
  <2>2. ~NoPointers /\ req.fn = bench.fn /\ req.p = x.p /\ req.q = x.q /\ req.n = x.n
    BY DEF InFixture, InPhase, InCall, Loops
  <2>3. /\ x.p = s1 /\ s1 = 1 /\ x.n \in 0 .. MaxAddress /\ x.n <= Size
        /\ bench.fn \in {"memcmp", "memcpy"} => x.q = s2 /\ s2 = 1 + Size
        /\ bench.fn = "memmove" => x.q > s1 /\ x.q \in Int /\ x.q + x.n <= s1 + Size
    BY <2>2, ArgsFit
  <2> HIDE DEF x
  <2> QED  BY <2>1, <2>2, <2>3, Sizing DEF Region, TwoBuffers
<1> QED  BY <1>1, FixtureAlways, PTL

-----------------------------------------------------------------------------
\* What the buffers differ in.

\* A byte and its inverse are never the same, where SetUp inverts one.
LEMMA Differ ==
  ASSUME FixtureTypeOK, InMemory,
         phase = "up" \/ (phase = "iterating" /\ bench.fn \in {"memcmp", "memchr"}),
         s1 # NULL
  PROVE  /\ mem[s1 + Size - 1] = 0
         /\ \A j \in 0 .. Size - 2 : mem[s1 + j] \in Nat /\ mem[s1 + j] > 0
         /\ s2 # NULL =>
              \E i \in 0 .. Size - 1 : \A j \in 0 .. Size - 1 :
                /\ j = i => mem[s2 + j] > mem[s1 + j]
                /\ j # i => mem[s2 + j] = mem[s1 + j]
                /\ mem[s1 + j] \in Nat
                /\ mem[s2 + j] \in Int
<1>1. /\ mem[s1 + Size - 1] = 0
      /\ \A j \in 0 .. Size - 2 : mem[s1 + j] \in Random
  BY DEF InMemory
<1>2. \A j \in 0 .. Size - 2 : mem[s1 + j] \in Nat /\ mem[s1 + j] > 0
  BY <1>1, RandomIsByte
<1>3. s1 = 1 /\ Size \in Nat /\ Size >= 2 /\ Base \in Nat
  BY Sizing, Constants DEF FixtureTypeOK
<1>4. ASSUME NEW j \in 0 .. Size - 1
      PROVE  mem[s1 + j] \in Nat /\ Base - 1 - mem[s1 + j] > mem[s1 + j]
  <2>1. CASE j \in 0 .. Size - 2
    BY <1>1, <1>2, <1>3, <2>1, RandomIsByte DEF Inverted
  <2>2. CASE j = Size - 1
    <3>1. mem[s1 + j] = 0
      <4>1. s1 + j = s1 + Size - 1
        BY <1>3, <2>2
      <4> QED  BY <1>1, <4>1
    <3>2. 0 \in 0 .. Size - 2
      BY <1>3
    <3>3. Base >= 4
      <4>1. mem[s1 + 0] \in 1 .. Base \div 2 - 1
        BY <1>1, <3>2 DEF Random
      <4>2. Base \div 2 >= 2
        BY <1>3, <4>1
      <4> QED  BY <1>3, <4>2
    <3> QED  BY <1>3, <3>1, <3>3 DEF Inverted
  <2> QED  BY <1>3, <2>1, <2>2
<1>5. ASSUME s2 # NULL
      PROVE  \E i \in 0 .. Size - 1 : \A j \in 0 .. Size - 1 :
               IF j = i THEN mem[s1 + j] + mem[s2 + j] = Base - 1
               ELSE mem[s2 + j] = mem[s1 + j]
  BY <1>5 DEF InMemory
<1>6. ASSUME s2 # NULL
      PROVE  \E i \in 0 .. Size - 1 : \A j \in 0 .. Size - 1 :
               /\ j = i => mem[s2 + j] > mem[s1 + j]
               /\ j # i => mem[s2 + j] = mem[s1 + j]
               /\ mem[s1 + j] \in Nat
               /\ mem[s2 + j] \in Int
  <2>1. PICK i \in 0 .. Size - 1 : \A j \in 0 .. Size - 1 :
          IF j = i THEN mem[s1 + j] + mem[s2 + j] = Base - 1 ELSE mem[s2 + j] = mem[s1 + j]
    BY <1>5, <1>6
  <2>2. ASSUME NEW j \in 0 .. Size - 1
        PROVE  /\ j = i => mem[s2 + j] > mem[s1 + j]
               /\ j # i => mem[s2 + j] = mem[s1 + j]
               /\ mem[s1 + j] \in Nat
               /\ mem[s2 + j] \in Int
    <3>1. s2 + j \in Address
      BY <1>3, <1>6, Sizing DEF FixtureTypeOK, Address
    <3>2. mem[s2 + j] \in Int
      BY <3>1, Constants DEF FixtureTypeOK, TypeOK, Byte
    <3> QED  BY <1>3, <1>4, <2>1, <3>2
  <2> QED  BY <2>2
<1> QED  BY <1>1, <1>2, <1>6

(* SetUp leaves two buffers that differ in exactly one byte and have no early *)
(* null byte, whatever rand() yields; both are null terminated, unless the    *)
(* byte that they differ in is the last.                                      *)
THEOREM BuffersDifferInOneByte == FixtureSpec => []OneByteApart
<1>1. FixtureTypeOK /\ InFixture => OneByteApart
  <2> SUFFICES ASSUME FixtureTypeOK, InFixture, phase = "up", s1 # NULL, s2 # NULL
               PROVE  /\ mem[s1 + Size - 1] = 0
                      /\ \A j \in 0 .. Size - 2 : mem[s1 + j] # 0 /\ mem[s2 + j] # 0
                      /\ \E i \in 0 .. Size - 1 :
                           /\ \A j \in 0 .. Size - 1 : mem[s1 + j] # mem[s2 + j] <=> j = i
                           /\ mem[s2 + Size - 1] = 0 <=> i # Size - 1
    BY DEF OneByteApart
  <2>1. InMemory
    BY DEF InFixture
  <2>2. /\ mem[s1 + Size - 1] = 0
        /\ \A j \in 0 .. Size - 2 : mem[s1 + j] \in Nat /\ mem[s1 + j] > 0
    BY <2>1, Differ
  <2>3. PICK i \in 0 .. Size - 1 : \A j \in 0 .. Size - 1 :
                /\ j = i => mem[s2 + j] > mem[s1 + j]
                /\ j # i => mem[s2 + j] = mem[s1 + j]
                /\ mem[s1 + j] \in Nat
                /\ mem[s2 + j] \in Int
    BY <2>1, Differ
  <2>4. \A j \in 0 .. Size - 1 : mem[s1 + j] # mem[s2 + j] <=> j = i
    BY <2>3
  <2>5. ASSUME NEW j \in 0 .. Size - 2 PROVE mem[s1 + j] # 0 /\ mem[s2 + j] # 0
    <3>1. j \in 0 .. Size - 1
      BY Sizing
    <3> QED  BY <2>2, <2>3, <3>1
  <2>6. mem[s2 + Size - 1] = 0 <=> i # Size - 1
    <3>1. Size - 1 \in 0 .. Size - 1 /\ s1 \in Int /\ s2 \in Int
      BY Sizing DEF FixtureTypeOK, NULL
    <3>2. s1 + (Size - 1) = s1 + Size - 1 /\ s2 + (Size - 1) = s2 + Size - 1
      BY <3>1, Sizing
    <3>3. mem[s1 + (Size - 1)] # mem[s2 + (Size - 1)] <=> Size - 1 = i
      BY <2>4, <3>1
    <3> QED  BY <2>2, <3>2, <3>3
  <2> QED  BY <2>2, <2>4, <2>5, <2>6
<1> QED  BY <1>1, FixtureAlways, PTL

(* memchr never finds its byte, and memcmp answers -1 exactly when the        *)
(* inverted byte is among those it compares.                                 *)
THEOREM BenchmarksMeasureTheWorst == FixtureSpec => []MeasuresTheWorst
<1>1. FixtureTypeOK /\ InFixture => MeasuresTheWorst
  <2> SUFFICES ASSUME FixtureTypeOK, InFixture, phase = "iterating", pc = "returned"
               PROVE  /\ bench.fn = "memchr" => ret = NULL
                      /\ bench.fn = "memcmp" =>
                           ret = IF \E i \in 0 .. bench.sz - 1 : mem[s1 + i] # mem[s2 + i]
                                 THEN -1 ELSE 0
    BY DEF MeasuresTheWorst
  <2> DEFINE x == Args(bench.fn, bench.sz)
  <2>1. /\ ~NoPointers /\ InMemory /\ req.fn = bench.fn
        /\ req.p = x.p /\ req.q = x.q /\ req.n = x.n /\ req.c = x.c
        /\ req.fn = "memcmp" => mem = old /\ ComparesAs(req, old, ret)
        /\ req.fn = "memchr" => mem = old /\ (req.c \in Byte => FoundAs(req, old, ret))
    BY DEF InFixture, InPhase, InCall, StringInv, InReturned, AsStringH
  <2>2. /\ x.p = s1 /\ s1 # NULL
        /\ bench.fn = "memcmp" => x.q = s2 /\ s2 # NULL /\ x.n = bench.sz
        /\ bench.fn = "memchr" => x.c = 0 /\ x.n = bench.sz
    BY <2>1, ArgsFit, Sizing DEF NULL
  <2>3. bench.sz \in Nat /\ 2 * bench.sz <= Size /\ bench.sz > 0
    BY BenchFacts
  <2> HIDE DEF x
  <2>4. CASE bench.fn = "memchr"
    <3>1. FoundAs(req, mem, ret) /\ req.p = s1 /\ req.c = 0 /\ req.n = bench.sz
      <4>1. 0 \in Byte
        BY Constants DEF Byte
      <4> QED  BY <2>1, <2>2, <2>4, <4>1
    <3>2. \A i \in 0 .. bench.sz - 1 : mem[s1 + i] # 0
      <4>1. \A i \in 0 .. bench.sz - 1 : i \in 0 .. Size - 2
        BY <2>3, Sizing
      <4> QED  BY <2>1, <2>2, <2>4, <4>1, Differ
    <3>3. 0 % Base = 0
      BY Constants
    <3> QED  BY <2>4, <3>1, <3>2, <3>3 DEF FoundAs
  <2>5. CASE bench.fn = "memcmp"
    <3>1. /\ ComparesAs(req, mem, ret) /\ req.p = s1 /\ req.q = s2 /\ req.n = bench.sz
          /\ s2 # NULL
      BY <2>1, <2>2, <2>5
    <3>2. PICK k \in 0 .. Size - 1 : \A j \in 0 .. Size - 1 :
                /\ j = k => mem[s2 + j] > mem[s1 + j]
                /\ j # k => mem[s2 + j] = mem[s1 + j]
                /\ mem[s1 + j] \in Nat
                /\ mem[s2 + j] \in Int
      BY <2>1, <2>2, <2>5, <3>1, Differ
    <3>3. \A j \in 0 .. bench.sz - 1 : j \in 0 .. Size - 1
      BY <2>3, Sizing
    <3>4. CASE ret = 0 /\ SameUpTo(req, mem, req.n)
      BY <2>5, <3>1, <3>4 DEF SameUpTo
    <3>5. CASE \E i \in 0 .. req.n - 1 :
                 /\ SameUpTo(req, mem, i)
                 /\ \/ ret = -1 /\ mem[req.p + i] < mem[req.q + i]
                    \/ ret = 1 /\ mem[req.p + i] > mem[req.q + i]
      <4>1. PICK i \in 0 .. bench.sz - 1 :
              \/ ret = -1 /\ mem[s1 + i] < mem[s2 + i]
              \/ ret = 1 /\ mem[s1 + i] > mem[s2 + i]
        BY <3>1, <3>5
      <4>2. ret = -1 /\ mem[s1 + i] # mem[s2 + i]
        BY <3>2, <3>3, <4>1
      <4> QED  BY <2>5, <4>2
    <3> QED  BY <3>1, <3>4, <3>5 DEF ComparesAs
  <2> QED  BY <2>4, <2>5
<1> QED  BY <1>1, FixtureAlways, PTL
=============================================================================
