--------------------------- MODULE StringFixture ---------------------------
(***************************************************************************)
(* benchmark.cpp, StringFixture: the benchmark harness sets a fixture up,  *)
(* runs the body of one benchmark again and again, and tears it down.  The *)
(* functions that a body calls are those of SimplexString.                 *)
(***************************************************************************)
EXTENDS SimplexString

CONSTANTS Size,   \* bytes of a buffer: 4 MB
          Sizes   \* the arguments of the benchmarks: 4 KB and 2 MB

ASSUME FixtureAssumption ==
  /\ Size \in Nat /\ Size >= 2 /\ 2 * Size <= MaxAddress
  /\ Sizes \subseteq 1 .. Size \div 2

VARIABLES s1, s2,  \* the buffers
          phase,   \* down, up, in the iterations of a benchmark, or beyond this model
          mpx,     \* process_specific_init succeeded
          bench    \* the benchmark: variant, function and size

fixtureVars == <<s1, s2, phase, mpx, bench>>
allVars == <<stringVars, fixtureVars>>

Benchmarks == [variant : Variants, fn : StringFunctions, sz : Sizes]

FixtureTypeOK ==
  /\ TypeOK
  /\ s1 \in {NULL, 1} /\ s2 \in {NULL, 1 + Size}
  /\ phase \in {"down", "up", "iterating", "undefined"}
  /\ mpx \in BOOLEAN
  /\ bench \in Benchmarks

\* A process has no old bytes yet in what malloc will give it.
FixtureInit ==
  /\ mem = [a \in Address |-> 0]
  /\ Init
  /\ s1 = NULL /\ s2 = NULL
  /\ phase = "down"
  /\ mpx = FALSE
  /\ bench \in Benchmarks

-----------------------------------------------------------------------------
\* rand() % 127 + 1.  A plausible bug: without the addition.
RandomFromZero == 0 .. Base \div 2 - 2
Random == 1 .. Base \div 2 - 1

\* ~ of a byte, and a plausible bug: the minus sign.
NegatedByte(b) == (Base - b) % Base
Inverted(b) == Base - 1 - b

\* f is what rand() yields.
randomize(m, ptr, f) ==
  IF ptr = NULL THEN m
  ELSE [a \in Address |->
          IF a \notin Region(ptr, Size) THEN m[a]
          ELSE IF a = ptr + Size - 1 THEN 0 ELSE f[a - ptr]]

\* The memcpy of 4 MB, and a plausible bug: its arguments exchanged.
CopiedBack(m, dst, src) ==
  [a \in Address |-> IF a \in Region(src, Size) THEN m[a - src + dst] ELSE m[a]]
Copied(m, dst, src) ==
  [a \in Address |-> IF a \in Region(dst, Size) THEN m[a - dst + src] ELSE m[a]]

\* The copy, if there are two buffers, then ~ of byte i, if there is one.
corrupt(m, dst, src, i) ==
  LET copied == IF src = NULL \/ dst = NULL THEN m ELSE Copied(m, dst, src)
  IN  IF dst = NULL THEN copied ELSE [copied EXCEPT ![dst + i] = Inverted(@)]

\* malloc may fail, and so may process_specific_init, whose answer is not looked at;
\* qsetbndl then has no effect.
SetUp ==
  /\ phase = "down"
  /\ phase' = "up"
  /\ s1' \in {NULL, 1} /\ s2' \in {NULL, 1 + Size}
  /\ \E f \in [0 .. Size - 2 -> Random], i \in 0 .. Size - 1 :
       mem' = corrupt(randomize(mem, s1', f), s2', s1', i)
  /\ mpx' \in BOOLEAN
  /\ bnd' = IF mpx' THEN [bnd EXCEPT !["BND1"] = s1', !["BND2"] = s2'] ELSE bnd
  /\ old' = mem'
  /\ bench' \in Benchmarks
  /\ UNCHANGED <<pc, d, s, len, ret, req>>

\* The bytes that memmove moves, and a plausible bug: those of the whole buffer.
WholeBuffer(sz) == Size
MovedBytes(sz) == sz \div 2

\* The arguments of the libgcc benchmark, where 1 stands for 0x43.
Args(fn, sz) ==
  CASE fn \in {"memcmp", "memcpy"} -> [p |-> s1, q |-> s2, c |-> 0, n |-> sz]
    [] fn = "memmove" -> [p |-> s1, q |-> s1 + (sz \div 4) + 1, c |-> 0, n |-> MovedBytes(sz)]
    [] fn = "memset" -> [p |-> s1, q |-> NULL, c |-> 1, n |-> sz]
    [] fn = "memchr" -> [p |-> s1, q |-> NULL, c |-> 0, n |-> sz]

Apply(variant, fn, p, q, c, n) ==
  CASE fn = "memcmp" -> Memcmp(variant, p, q, n)
    [] fn = "memcpy" -> Memcpy(variant, p, q, n)
    [] fn = "memmove" -> Memmove(variant, p, q, n)
    [] fn = "memset" -> Memset(variant, p, c, n)
    [] fn = "memchr" -> Memchr(variant, p, c, n)

LibgccBody(fn, sz) ==
  LET x == Args(fn, sz)
  IN  Apply("libgcc", fn, x.p, x.q, x.c, x.n) /\ UNCHANGED bnd

\* The simplex benchmark of memmove sets its registers, the others keep those of
\* SetUp.  A plausible bug: memmove keeps them too.
RegistersKept(fn, sz) == bnd
RegistersFor(fn, sz) ==
  IF fn = "memmove" THEN [bnd EXCEPT !["BND1"] = s1, !["BND2"] = s1 + (sz \div 4) + 1] ELSE bnd

\* Enter leaves bnd alone: the setting of the registers is a step of its own.
SetRegisters ==
  /\ phase \in {"up", "iterating"} /\ pc = "idle" /\ mpx /\ s1 # NULL
  /\ bench.variant = "simplex"
  /\ bnd # RegistersFor(bench.fn, bench.sz)
  /\ bnd' = RegistersFor(bench.fn, bench.sz)
  /\ UNCHANGED <<mem, pc, d, s, len, ret, req, old>>
  /\ UNCHANGED fixtureVars

SimplexBody(fn, sz) ==
  /\ bnd = RegistersFor(fn, sz)
  /\ LET x == Args(fn, sz)
     IN  Apply("simplex", fn, bnd["BND1"], IF fn \in TwoBuffers THEN bnd["BND2"] ELSE NULL, x.c, x.n)

\* Some pointer is null or comes from the stack.
NoPointers ==
  \/ s1 = NULL
  \/ s2 = NULL /\ bench.fn \in {"memcmp", "memcpy"}
  \/ ~mpx /\ bench.variant = "simplex"

Iterate ==
  /\ phase \in {"up", "iterating"} /\ pc = "idle"
  /\ ~NoPointers
  /\ IF bench.variant = "libgcc" THEN LibgccBody(bench.fn, bench.sz)
     ELSE SimplexBody(bench.fn, bench.sz)
  /\ phase' = "iterating"
  /\ UNCHANGED <<s1, s2, mpx, bench>>

\* What the body then reads and writes is not in this model.
IterateWithoutPointers ==
  /\ phase = "up" /\ pc = "idle"
  /\ NoPointers
  /\ phase' = "undefined"
  /\ UNCHANGED <<stringVars, s1, s2, mpx, bench>>

Running == LoopStep /\ UNCHANGED fixtureVars
Returned == Resume /\ UNCHANGED fixtureVars

\* free and process_specific_finish.  What the buffers held is not read again: after
\* the next SetUp both are written in full, or no body has its pointers.
TearDown ==
  /\ phase = "iterating" /\ pc = "idle"
  /\ phase' = "down"
  /\ s1' = NULL /\ s2' = NULL
  /\ mpx' = FALSE
  /\ bnd' = [r \in {"BND1", "BND2"} |-> NULL]
  /\ mem' = [a \in Address |-> 0] /\ old' = mem'
  /\ UNCHANGED <<pc, d, s, len, ret, req, bench>>

FixtureNext ==
  \/ SetUp \/ SetRegisters \/ Iterate \/ IterateWithoutPointers
  \/ Running \/ Returned \/ TearDown

FixtureSpec == FixtureInit /\ [][FixtureNext]_allVars

-----------------------------------------------------------------------------
(* A simplex benchmark works on the bytes that its libgcc twin works on, in    *)
(* every iteration: the registers never hold pointers of another benchmark.   *)
TwinsAgree ==
  phase = "iterating" /\ pc # "idle" =>
    LET x == Args(bench.fn, bench.sz)
    IN  /\ req.fn = bench.fn
        /\ req.p = x.p /\ req.q = x.q /\ req.n = x.n

(* No body reads or writes outside the buffer that it is meant for, in any      *)
(* iteration.                                                                *)
BodiesInBuffers ==
  phase = "iterating" /\ pc \in Loops /\ len > 0 =>
    /\ d \in Region(s1, Size)
    /\ bench.fn \in {"memcmp", "memcpy"} => s \in Region(s2, Size)
    /\ bench.fn = "memmove" => s \in Region(s1, Size)

(* SetUp leaves two buffers that differ in one byte, whichever it drew, and no   *)
(* null byte before the last one of either, which would end memchr early.  The *)
(* first is null terminated.  The second is, too, but when the byte that they *)
(* differ in is the terminator, which its comment leaves out.                 *)
OneByteApart ==
  phase = "up" /\ s1 # NULL /\ s2 # NULL =>
    /\ mem[s1 + Size - 1] = 0
    /\ \A j \in 0 .. Size - 2 : mem[s1 + j] # 0 /\ mem[s2 + j] # 0
    /\ \E i \in 0 .. Size - 1 :
         /\ \A j \in 0 .. Size - 1 : mem[s1 + j] # mem[s2 + j] <=> j = i
         /\ mem[s2 + Size - 1] = 0 <=> i # Size - 1

(* What the benchmarks measure: memchr looks for a byte that is never there,   *)
(* so it always searches all of sz, and memcmp stops at the inverted byte,    *)
(* which always is the larger one, or compares all of sz.                    *)
MeasuresTheWorst ==
  phase = "iterating" /\ pc = "returned" =>
    /\ bench.fn = "memchr" => ret = NULL
    /\ bench.fn = "memcmp" =>
         ret = IF \E i \in 0 .. bench.sz - 1 : mem[s1 + i] # mem[s2 + i] THEN -1 ELSE 0
-----------------------------------------------------------------------------
\* The inductive invariant, with the types and StringInv.

\* A function runs only in the iterations of a benchmark that has its pointers.
InPhase ==
  /\ phase # "iterating" => pc = "idle"
  /\ phase = "iterating" => ~NoPointers

\* The registers are those of SetUp, or those of the body of memmove.
InRegisters ==
  phase \in {"up", "iterating"} /\ mpx =>
    /\ bnd["BND1"] = s1
    /\ \/ bnd["BND2"] = s2
       \/ bench.fn = "memmove" /\ bnd = RegistersFor("memmove", bench.sz)

\* The function that runs is the one of the benchmark, on its arguments.
InCall ==
  pc # "idle" =>
    LET x == Args(bench.fn, bench.sz)
    IN  req.fn = bench.fn /\ req.p = x.p /\ req.q = x.q /\ req.c = x.c /\ req.n = x.n

\* The buffers are what SetUp made of them, until a body writes to them: a byte and
\* its inverse have all bits between them, and none in common.
InMemory ==
  phase = "up" \/ (phase = "iterating" /\ bench.fn \in {"memcmp", "memchr"}) =>
    /\ s1 # NULL =>
         mem[s1 + Size - 1] = 0 /\ \A j \in 0 .. Size - 2 : mem[s1 + j] \in Random
    /\ s1 # NULL /\ s2 # NULL =>
         \E i \in 0 .. Size - 1 : \A j \in 0 .. Size - 1 :
           IF j = i THEN mem[s1 + j] + mem[s2 + j] = Base - 1 ELSE mem[s2 + j] = mem[s1 + j]

InFixture == InPhase /\ InRegisters /\ InCall /\ InMemory /\ StringInv

FixtureInv == FixtureTypeOK /\ InFixture
=============================================================================
