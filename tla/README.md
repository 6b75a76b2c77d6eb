# Simplex in TLA+

Simplex is a C library that uses the four bounds registers of Intel MPX as
storage.  Each register is two 64-bit halves; the library reads and writes them
whole or by halves, and turns MPX on and off.  Around it are a test suite,
benchmarks, a kernel module and patched programs that use it.  This directory
models the library and most of what is around it, checks the models with TLC on
small instances and proves their main properties with TLAPS for all instances.

## 1. The system

### Components

| Component | Source | State | Operations |
|---|---|---|---|
| Accessors | `simplex/lib/simplex.c:46-257` | none of its own: a register, 16 bytes at `-0x80(%rsp)` | `getbndl`, `getbndu`, `getbnd`, `qgetbndl` |
| Mutators | `simplex/lib/simplex.c:270-434` | none of its own: a register | `setbndl`, `setbndu`, `setbnd`, `qsetbndl` |
| Runtime | `simplex/lib/mpxrt.c` | three statics nobody writes; the XSAVE image it restores | `process_specific_init`, `process_specific_finish` |
| Headers | `simplex/include/` | constants and prototypes | |
| Client, threads, kernel, processor | outside the tree | MPX context and stack of each thread | calls, stack use, thread creation, preemption |
| Memory functions | `simplex/eval/benchmark/simplex_string.cpp` | two buffers, BND1, BND2 | `simplex_mem*`, `libgcc_mem*` |
| Traversals | `simplex/eval/benchmark/*.S` | a buffer, BND0, BND1, saved registers | `gptraverse`, `mpxtraverse` |
| Benchmark fixtures | `simplex/eval/benchmark/benchmark.cpp` | buffers, registers | `SetUp`, `TearDown`, the benchmarks |
| Kernel module | `simplex/eval/kmod/simplexkm.c` | the MPX registers of a processor, the kernel's record of the module | load, unload |
| Test suite | `simplex/test/simplex_test.c` | the registers | setup, reset, tests, teardown |
| Blowfish, lbm, deepsjeng | patches under `simplex/eval/` | a pointer kept in a register | the patched programs |

### How they interact

A client thread calls a function of `simplex.h`.  An accessor stores the
register below its stack pointer with `bndmov`, loads the half it wants, clears
both words (all but `qgetbndl`) and returns.  A mutator computes a base and an
index such that `bndmk` yields the halves it wants; `setbndl` and `setbndu`
first call an accessor for the half they keep.  `process_specific_init` and
`process_specific_finish` ask CPUID whether the machine has MPX, then execute
two `XRSTOR`s: one that puts the MPX state of the calling thread in its initial
configuration, and one that loads `BNDCFGU`.  All of this state belongs to the
thread: the kernel saves and restores it, and `clone` copies it.

The kernel module has the same check and the same two `XRSTOR`s in its init and
exit functions, and executes them in the kernel, on whatever processor runs
insmod or rmmod.  The test suite, the fixtures and the patched programs are
clients: they call init, keep values or pointers in registers across calls of
the library and of other functions, and call finish.  The traversals use the
instructions without the library.

### What is hard

* **MPX that is off looks like MPX that is on.**  Every MPX instruction is then
  a NOP.  An accessor answers what was on the stack, a mutator does nothing, and
  no error is reported.
* **Two halves through one instruction.**  `bndmk` writes both halves, from a sum
  modulo 2^64 and its complement.  Keeping a half needs a read, a subtraction
  that may be negative, and a nested call whose near branches clear the
  registers unless `BNDPRESERVE` is set.
* **The stack.**  A spill is visible until something clears it, at the depth where
  it was made; a spill the compiler moved is cleared by nobody.
* **Who is enabled.**  The functions are named for the process and act on a thread.
* **What the check proves.**  CPUID, CR4 and XCR0 are three different things, and
  an `XRSTOR` faults when they disagree.
* **Two steps.**  Between the two `XRSTOR`s the thread has MPX off and clear
  registers, and other threads run.  In the kernel module the task may come back
  on another processor.
* **A fault in the middle.**  `XRSTOR` in the module's init function kills insmod
  and leaves the module half loaded.
* **Pointers in registers.**  A program that keeps a pointer in a register must
  exchange, copy and free it through locals, and loses it with the next init.
* **Loops that end at equality.**  The traversals stop when a cursor meets a
  midpoint exactly.

The components do not share state between threads, so there are no locks, no
messages and nothing persistent: crash recovery, message loss and retries do
not occur in this code.

## 2. The modules

| Module | What it models |
|---|---|
| `Mpx` | The instructions the code uses, as operators on a context (external) |
| `Cpuid` | `cpuid.h` and its copy `simplexkm.h`: what CPUID says of a machine |
| `ThreadContext` | The variables of a process, its initial states, `ret` and the stack |
| `Simplex` | `simplex.c`: one action per function, or per part of one |
| `Mpxrt` | `mpxrt.c`, likewise |
| `SimplexProcess` | The composition with a client and its threads; the properties; the inductive invariant |
| `RegStore` | What the library promises: a store of two words per register and thread |
| `TestSuite` | `simplex_test.c`: one client of `SimplexProcess`, the CUnit suite |
| `SimplexString` | `simplex_string.cpp`: the entries and loop iterations of its ten functions |
| `StringFixture` | `benchmark.cpp`, `StringFixture`: a client of `SimplexString` |
| `Traverse` | `gptraverse.S` and `mpxtraverse.S` |
| `Kmod` | `simplexkm.c` under a kernel with several processors |
| `TaskContexts` | The isolation of tasks: a context for each, no processors |
| `LbmProgram`, `LbmGrids`, `Lbm` | 519.lbm_r: the order of its statements, the program before its patch and after it |
| `MCSimplex`, `MCTestSuite`, `MCString`, `MCFixture`, `MCTraverse`, `MCKmod`, `MCLbm` | Values of the constants for TLC |
| `SimplexProcess_proofs`, `RegStore_proofs`, `TestSuite_proofs`, `SimplexString_proofs`, `StringFixture_proofs`, `Traverse_proofs`, `Kmod_proofs`, `Lbm_proofs` | Theorems |

### State of the library

| Variable | In the code |
|---|---|
| `platform` | what CPUID answers, CR4.OSXSAVE, XCR0; never changes |
| `alive` | FALSE after a fault of `XRSTOR` (its signal ends the process) |
| `pc[t]` | the function thread `t` is in, or the point inside one |
| `ctx[t]` | its bounds registers and the bits of `BNDCFGU`, as XSAVE keeps them |
| `slot[t][d]` | the 16 bytes at `-0x80(%rsp)` of an accessor called by the client (`direct`) or by a mutator (`nested`), and which function's spill they hold (`by`, bookkeeping for the properties) |
| `call[t]` | the last call: function, register, value |
| `link[t]` | where a running accessor returns to |
| `out[t]` | `rdx:rax` |

A register keeps its upper half complemented, as the hardware does, and all
arithmetic is modulo `M`.  `uint128_t` values are pairs of halves, and the
shifts, the complement and the XOR of `getbnd` and `setbnd` are operators on
pairs, in the order of the code.

### Actions of the library

`getbndl`, `getbndu`, `getbnd` spill and load; `sanitize` clears the slot and
returns.  They are two steps because the slot is observable between them.
`qgetbndl` is one step.  `setbndl` and `setbndu` are the call of the accessor,
`setbndl_bndmk` and `setbndu_bndmk` the rest of the function.  `setbnd` and
`qsetbndl` are one step.  Each accessor has a disjunct `InvalidRegister` for its
default label, each mutator has it in `BndmkOrComplain`.
`process_specific_init` is the check and the first `XRSTOR`, `enable_mpx` the
second one and the return; `process_specific_finish` and `disable_mpx` likewise.
Every function is called and returns through `NearBranch`.

The default label of an accessor may leave the image of any register in its
slot.  The spilling `__asm__` statements are not volatile and declare no
clobbers, so a compiler may execute one before the `switch` has chosen a label:
gcc 12 at `-O2` moves that of BND3 in `getbndl`, `getbndu` and `qgetbndl`.  The
model allows it for each accessor and each register.  The other direction, a
spill moved behind the volatile statement that clears its slot, is not modelled:
gcc keeps them in order at every optimisation level from `-O0` to `-O3`.

The client may call any function with any value, and with a register outside
the enumeration, which C does not forbid.  Between calls its frames may
overwrite the slots.  A running thread may start another one.  Thread exit and
signal handlers are not modelled.

### Abstract specification

`RegStore` has neither stack nor instructions.  A call is invoked, takes effect
in one step on the caller's own store, and is answered.  `SimplexProcess`
implements it under the mapping `Abstract`: `store` is the upper halves
uncomplemented, `on` the enable bit, a thread is busy from call to return.  Init
and finish take effect in two steps (`Reset`, `Switch`).  While a store is off
it holds initial bounds, reads answer any word and writes are lost: that is
exactly what the NOPs come to, and the most one may rely on.

### The string functions

`simplex_string.cpp` has two variants of `memcmp`, `memcpy`, `memmove`, `memset`
and `memchr`.  The `libgcc` variant takes pointers, the `simplex` variant finds
them in the lower halves of BND1 and BND2.  `SimplexString` models both over a
memory of bytes: `mem`, the halves `bnd`, the loop `pc`, its cursors `d` and `s`
and counter `len`, the answer `ret`; `req` and `old` remember the call and the
memory it found, for the properties.  A variant differs in its entry (where the
pointers come from) and in its return (`simplex` reads BND1 again); the loops
are the same code in both, one action each, one step per iteration.  Entries
have the name of their function.

The registers are those that `RegStore` promises to a thread that has MPX on, so
`qgetbndl` is a read and `SetRegister`, the client's `qsetbndl`, a write.  They
are NULL at first, as `process_specific_init` leaves them.  With MPX off the
functions would use words of the stack as pointers; the fixtures do not look at
the result of `process_specific_init`, which is listed as a hazard.

The client passes buffers that it owns (`Allowed`), disjoint ones to `memcpy`;
nothing else is assumed, in particular neither that a length is positive nor
that an `int` argument is a byte.  Cursors are integers: `lasts` and `lastd` of an
empty `memmove` may lie one below the buffer, or below NULL (-1 for 2^64 - 1).

The contract (`Moved`, `Filled`, `ComparesAs`, `FoundAs`) is that of `string.h`, where
`memset` and `memchr` convert their `int` to `unsigned char`.  The code keeps it in
all calls but one: its `memchr` does not convert, and never finds an `int` outside
the range of a byte.  `AsStringH` leaves these calls out; what they answer is
`NeverFound`, a part of `StringInv`, and finding 6.

### The test suite

`TestSuite` follows CUnit through the suite: the setup, then for each of `Tests`
first `reset_bnd_regs` (`CU_TEST_SETUP`) and then the test, then the teardown.  `at` is
where it is: the stage, the test, the register of the loop and the line of its body.
The body of a loop is a sequence of lines (`Script`), each a call and, for an
accessor, the value that its assertion expects.  `NextInBody` goes to the next line,
`NextRegister` to the next round of the loop, `NextStage` past its end.  `NextLine`
makes the call of that line as the client of `SimplexProcess`, whose actions execute
it; `Frames` overwrites the stack between calls; `End` is the verdict.  CUnit is not in
the tree; what is assumed of it is that it runs the tests in the order of their list
and that a failed fatal assertion in the setup ends the suite.

### The string benchmarks

`StringFixture` adds to `SimplexString` the two buffers, which `malloc` may not
give, the result of `process_specific_init`, and the benchmark that the harness
runs.  `SetUp` is the whole method: `randomize` with any random bytes, `corrupt` at
any index, the registers.  `Iterate` enters the body of a benchmark, any number of
times, `SetRegisters` is the two `qsetbndl` of memmove's body, `TearDown` ends it.
A body without its pointers (`NoPointers`) leads to the state `undefined`, where
the model stops.  The null pointer of a failed allocation in an argument that the
benchmark does not use does no harm, in the model as in the code.

### The traversals

`Traverse` models both functions with one `Round`: read a word in each half at the
offset `rdx`, increment, compare.  They differ in where the cursors are kept
(`Fetched`), in the slots below the stack pointer that one of them spills to
(`Sanitized`) and in the order of pushes and pops (`Popped`).  A read of an
unmapped byte kills.  `pairs` remembers the addresses read, for the properties.
With MPX off the bounds stay off and the loads find the stack's words.

### The kernel module

`Kmod` has processors: `hw` is the MPX registers of each, `saved` what the kernel
saved for each task, `running` who is on it.  `enable_init` and `enable_cleanup` are
the check with the first `XRSTOR`, `enable_mpx` and `disable_mpx` the second with
the return to the kernel; the scheduler may take the task off between them.
`Oops` is what the kernel does after a fault of its own.  The kernel around the
module (`Insmod`, `Rmmod`, `Fork`, `SwitchIn`, ...) is external, as Linux behaves:
it copies the running context at fork, lets one task into the module at a time,
and keeps a module whose init function answered a positive number.  Task
identifiers are used again.

`TaskContexts` has no processors: each task owns a context, which only its own
steps change, those of the module's functions included.  `Kmod` implements it under
the mapping `Own`: the context in the processor that runs the task, or the saved
one.  This is the isolation that a kernel owes to its tasks, and it excludes what
the module's README says, that loading enables MPX for all processes: that is
`LoadingEnablesAll`, which does not hold (finding 4).  `TaskContexts` does not say
whether a module stays that found the machine unsupported; `LoadingEnds` does.

### The patched lbm

`LbmProgram` has the order of the statements in the lines of the patch and what
the functions outside it do to a grid: which time step it holds and which cells
were marked.  `LbmGrids` is the program of the `-` lines, with two static pointers,
`Lbm` that of the `+` lines, with BND0 and BND1 and locals.  `Lbm` implements
`LbmGrids`: the exchange takes effect when BND0 is set, a grid's pointer is cleared
when it is freed.  `process_specific_init` may fail; nobody looks, and the model
stops there (`undefined`).

## 3. The runs

| Run | Instance | Question |
|---|---|---|
| `calls` | 1 thread, 1 register and an invalid one, `M = 3`, every function and value, junk on the stack | Do halves survive wraparound and complement, what stays on the stack, what survives finish? Also the inductive invariant |
| `threads` | 2 threads, 2 registers, `M = 2`, four machines, four functions | Are threads independent and truthfully answered, is another register ever touched, and does every call return? |
| `string` | 4 addresses, 2 byte values, 4 ints; every memory, register, buffer and length | Do the string functions, with any overlap, do what `string.h` says, stay in their buffers and return, and where does `memchr` not? |
| `test_suite` | 4 registers, `M = 16`, every platform, junk between the calls | Does the suite pass, from clean registers, and end; where do the runtime functions kill it? |
| `fixture` | buffers of 8 bytes of 6 values, sizes 3 and 4, every random content and corrupted byte | Do both variants of a benchmark do the same work, in their buffers, and the work they are meant to measure? |
| `traverse` | `M = 32`, 24 readable addresses, 84 buffers, MPX on and off | What do the traversals read, where do they fault, what do they leave, do they end? |
| `kmod` | 2 processors, 3 tasks, four machines, a fair scheduler | Does the module change another context than its caller's, where does a fault leave it, and how does each load and unload end? |
| `lbm` | 2 grids, up to 5 steps, a report every 2, every kind of simulation | Does the patched program do what it did before? |
| `not_ready`, `one_thread_enabled`, `invalid_register`, `module_for_all` | violations | See findings 1 to 4 |

Where `CHECK_DEADLOCK FALSE` is set, the system really stops: after a fault the
process is dead (`MCThreads`, `MCNotReady`, `MCTraverse`), the suite or the
program comes to its end (`MCTestSuite`, `MCLbm`), or a body without pointers is
undefined (`MCFixture`).

### Properties

| Property | Says |
|---|---|
| `ImplementsRegStore` | every call reads or writes exactly the halves it names, as one step, whatever the stack holds and other threads do |
| `KeepsOtherHalf` | `setbndl` never changes an upper half at any of its steps, nor `setbndu` a lower |
| `NoLeftoverSpill` | after a return only `qgetbndl` and default labels have left an image on the stack |
| `OffMeansClean` | a thread with MPX off has nothing in its registers |
| `AnswersAreTrue` | the Booleans of the runtime functions agree with the thread's enable bit |
| `KilledOnlyWithoutKernelSupport` | a fault needs a check that passed and a kernel that does not enable MPX |
| `CallsReturn` | every call returns, unless the process is killed |
| `AsStringH` | on return, memory and answer are those of `string.h`, whichever variant was called, but for `memchr` of an int that is no byte |
| `AccessesInBuffers` | no loop reads or writes outside the caller's buffers |
| `StringCallsReturn` | every loop ends |
| `AssertionsHold` | every assertion of the suite holds, whatever the stack holds |
| `TestsHaveMpx` | no test runs with MPX off |
| `TestsStartClean` | every test finds all registers cleared |
| `SuiteEnds` | the suite ends, or the library is killed in it |
| `TwinsAgree` | a simplex benchmark works on the bytes of its libgcc twin |
| `BodiesInBuffers` | no body leaves the buffer it is meant for |
| `OneByteApart` | the two buffers of the fixture differ in exactly one byte and have no early null byte; the first is null terminated, the second unless its terminator is that byte |
| `MeasuresTheWorst` | memchr never finds, memcmp stops at the corrupted byte only |
| `TraversesHalves` | a traversal that returns has read each word of a half with its counterpart, left no spill, and restored its caller's registers, but for `rcx` and `rdx`, which `gptraverse` exchanges |
| `FaultsOnlyOutside` | a fault needs MPX off, a size below 2, or an unmapped byte of the buffer or the seven behind it |
| `TraversalEnds` | every traversal returns or faults |
| `ImplementsTaskContexts` | the kernel module changes the context of the task that runs it and no other, wherever the scheduler moves tasks |
| `StuckOnlyWithoutKernelSupport` | a half-loaded module needs a check that passed and a kernel without MPX |
| `LoadingEnds` | a load ends with the module live, its check failed or not, an unload with it absent, or either is stuck after a fault |
| `LoadingEnablesAll` | loading enables MPX for every task (violated: finding 4) |
| `ImplementsUnpatched` | the patched lbm does, statement by statement, what it did before |
| `GridsInStep` | at each time step BND0 has the last grid and BND1 the other one |
| `NothingLeft` | at its end lbm has freed both grids and keeps no pointer |
| `TypeOK` | the type invariants of the library and the kernel module, checked by TLC; those of `StringFixture` and `Lbm` are parts of their inductive invariants, those of `SimplexString` and `Traverse` are proved |
| `ProcessInv`, `SuiteInv`, `StringInv`, `FixtureInv`, `KmodInv`, `TraverseInv`, `LbmInv` | the inductive invariants |

### Bounds

Nothing in the model counts, so it is finite without bounds in its guards.  The
word has `M` values: with `M = 3` every order of two words, equality, a difference
below 0, a sum that wraps and one that does not occur, and the complement is not the
negation.  With `M = 2` the complement swaps the two words, which is enough for the
threads, where values only need to differ.  Two registers show a write to the wrong
one.
Two threads show every interleaving of the steps of two calls; threads share
nothing but `alive` and `platform`.  `Junk` holds one word, different from the
0 that cleared slots hold.  The theorems remove these bounds.

Four addresses are enough for buffers of two and three bytes that overlap at
either end, on which the direction of `memmove` matters, for disjoint pairs, and
for empty and one-byte buffers at both ends of the memory.  The ints are both
bytes and two ints outside their range that convert to different bytes.

The platforms of `MCTestSuite` are every combination of a highest CPUID leaf
below or above 13, the bits 26 and 27 of ECX of leaf 0 for the vendors' strings,
MPX, the XSAVE components, CR4.OSXSAVE and XCR0, restricted by
`PlatformsAssumption`: a kernel can only set in XCR0 what the processor has.

The suite's word has 16 values, so that its shift by 16 becomes one by 2 and its
three constants stay different, with set bits at the end that is shifted out.  The
fixture's buffers are longer than twice a size, as the code's are, with an odd and
an even size because memmove moves a half of one.  Six byte values give random
bytes from 1 to 2 and their complements from 3 to 4, as the code's are below and
above 128.  The memory of the traversals leaves unreadable addresses on both
sides, so that buffers start before it, end in its last eight bytes and reach over
its end.  Two processors and three tasks are enough for a task to move while two
others run, one of them with a context of its own; one register of two values
tells contexts apart.  Five steps of lbm have both parities of the exchange after
reports and without.

### Fairness

`FairSpec` adds weak fairness of the library steps of each thread: Linux
preempts threads and starves none, and no step of the library waits.  Nothing is
assumed of the client, which may stop calling.  `SimplexString` and `Traverse`
assume weak fairness of their loops for the same reason.  `TestSuite` adds that the
suite goes on to its next call: it is a loop over an array.

`Kmod` adds weak fairness of preemption for each processor (Linux ticks), and
strong fairness, for each task but the first, of entering a processor and of its
next step in the module: both are disabled again and again, when other tasks take
the processors and when it is preempted, and a scheduler that starves no task
gives both to it in the end.  Without preemption two other tasks could keep both
processors forever; TLC shows that behaviour.  The first task, which is always
there and starts the others, never runs insmod.

### Findings

1. `mpxrt.c:126` asks CPUID leaf 0 for XSAVE and OSXSAVE.  ECX of leaf 0 is four
   letters of the vendor string (`ntel` on Intel, where both bits are set), so
   the test accepts every Intel processor; XCR0 is never read.  On a kernel
   without MPX support `process_specific_init` dies in `XRSTOR`, while its
   comment promises false.  `KilledOnlyWithoutKernelSupport` says that this is
   the only way to die.
2. `mpxrt.c:205` enables MPX for the calling thread; the comment says process.
3. `simplex.c:53`: an invalid register may leave the image of a valid one below
   the stack pointer, although all accessors but `qgetbndl` sanitize.
4. `simplexkm.c:200` enables MPX for the task that runs insmod, which usually ends
   right after.  The module's README says for all processes (`kmod/README.md:3`),
   its description globally (`simplexkm.c:23`); `module_for_all` shows another task
   with MPX off.
5. `simplexkm.c:198` returns 1 where there is no MPX.  The kernel takes only negative
   numbers for failures and keeps the module loaded, while the comment of the other
   return (`:202`) says that a non-zero one means that it couldn't be loaded.
   `LoadingEnds` states it: every load ends with the module live, or with a fault.
6. `simplex_string.cpp:81` and `:133`: `memchr` compares bytes with its `int` as it is,
   where `string.h`, whose functions these are (`simplex_string.h:23`,
   `benchmark/README.md:17`), converts it.  `NeverFound` in the run `string` shows
   the answer NULL for `int`s whose byte is in the buffer.
7. `benchmark.cpp:58` may invert the terminator of the second buffer, while the
   comment in `:233-234` says that both are null terminated.  `OneByteApart` states
   exactly when it does.  No benchmark searches that buffer.

Findings 5 to 7 have no violated property: the property named there, of a run that
passes, says what the code does instead.

Seen while modelling, each in the model as the code has it, without a finding:

* `gptraverse.S:37` and `mpxtraverse.S:51` read up to seven bytes behind the buffer;
  `FaultsOnlyOutside` allows for them.
* `benchmark.cpp:211` and `:217` pass the address of the fixture's pointer, so the
  traversals walk over the fixture and what follows it, and not over its buffer.
* `gptraverse.S:52` pops `rdx` where it pushed `rcx`.  Both are the callee's to change
  in the System V ABI, so no caller in C sees it; `TraversesHalves` has it.
* `simplex_test.c:160` shifts in 64 bits: the test of the wide functions stores an
  upper half of 0.

## 4. The proofs

`SimplexProcess_proofs` proves `TypeOK`, the inductive invariant `ProcessInv`
and from it `NoLeftoverSpill`, `OffMeansClean`, `AnswersAreTrue` and
`KilledOnlyWithoutKernelSupport`.  `RegStore_proofs` proves `KeepsOtherHalf` and
the refinement `ImplementsRegStore`.  All hold for every `M >= 2`, every set of
threads and registers, every set of platforms and every client.

`Kmod_proofs` proves `TypeOK`, `KmodInv`, `StuckOnlyWithoutKernelSupport` and the
refinement `ImplementsTaskContexts`, for any number of processors, tasks and
registers.  `Traverse_proofs` proves `TypeOK`, `TraverseInv`, `TraversesHalves` and
`FaultsOnlyOutside`, for words, buffers and memories of any size.  `Lbm_proofs`
proves `LbmInv`, `NothingLeft`, `GridsInStep` and the refinement `ImplementsUnpatched`, for
any grids, any parameters and any number of time steps.

`TestSuite_proofs` proves first that the suite is a client of the library
(`SuiteIsAClient`), so that every theorem about `SimplexProcess` holds in it, then
`SuiteInv`, `AssertionsHold`, `TestsHaveMpx` and `TestsStartClean`, for words of any
width, any values in the tests and any list of registers.  `StringFixture_proofs`
proves `FixtureTypeOK`, `FixtureInv`, `TwinsAgree`, `BodiesInBuffers`, `OneByteApart` and
`MeasuresTheWorst`, for buffers, arguments and memories of any size and bytes of any
width; that the functions keep the contract of `string.h` under the harness
(`AsStringH`) comes with them.

`SimplexString_proofs` proves `StringInv` with the types, and from them
`AsStringH` and `AccessesInBuffers`, for memories of any size, bytes of any width
and any ints; that `memchr` finds no int outside the range of a byte is a part of
`StringInv`.  `StringInv` says what each loop has done when `len` bytes are left:
the bytes compared were equal, those searched were not the int sought, those
moved or filled have their final value and all others their old one.  The step
of a forward copy needs that its source byte is not among those already written,
which follows from `p < q`, or from disjointness for `memcpy`; the backward copy
needs `p >= q`.

Assumptions on the constants: the memory has a natural number of addresses and
a byte at least one value; the word has at least two values; the main thread
is a thread; the invalid register is not a register; XCR0 enables only what
CPUID reports; junk consists of words; the client calls functions of the
library; the suite's loop runs over all registers and its values are words; the
fixture's two buffers fit in the memory and a benchmark works on at most half of
one.  TLC evaluates them in every run of a module that they belong to.

`KmodInv` has what the refinement needs.  A task is on one processor at most
(`OnOneCpu`), so that a context has one place; one task is in the module
(`OneInModule`), so that the kernel's record is its own; between the `XRSTOR`s its
context is clean wherever it is (`BetweenRestores`), so that the second one gives
exactly what the abstract step gives; and no context has MPX on under a kernel
that does not enable it.  A switch moves a context from `hw` to `saved` or back,
and is a stutter of `TaskContexts`; a fork copies it.

`TraverseInv` says that after `k` rounds the first `k` pairs were read, all
readable, while `k` is less than half the size (less than `M` if that is 0, when
the test is met after the counter has wrapped, if ever).  What remains is
arithmetic modulo `M`: the cursor meets the midpoint after half the size and not
before.

`LbmInv` has two parts.  `PointersInv` says which grids are allocated and what the
locals and the registers hold at each point, in the middle of an exchange too.  It
is what shows that the two free calls get different grids, each allocated.
`FieldsInv` says what the grids hold: while they are prepared, which cells are
marked in which of them; in the loop, which time step each has and that the marked
cells are the same in both.  The second half of it changes with the exchange: the
grid of BND0 is a step behind that of BND1 between the computation and the store
into BND0, and a step ahead from then on.  `GridsInStep` is what it says at the
start of a time step.

`SuiteInv` adds to `ProcessInv` where the suite is (`InPosition`), that MPX is on
between setup and teardown (`InMpx`), that the registers before that of the loop of
`reset_bnd_regs` are clear (`InReset`), and that the lines of the script executed so
far hold what they wrote (`InScript`).  The last one is inductive because of how the
tests are written: in every script no mutator destroys what an earlier one wrote,
and what an accessor is expected to answer follows from what the mutators before it
wrote (`Consistent`, proved for each test and for the reset).  What a single call
does is not proved again: `CallEffect` and `RuntimeEffect` read it off the operation
of `RegStore` that the library's step is (`LibraryActs`).

`FixtureInv` adds to `StringInv` that a function runs only in an iteration that has
its pointers (`InPhase`), that the registers are those of `SetUp` or those of
memmove's body (`InRegisters`), that the running function is the benchmark's on the
benchmark's arguments (`InCall`), and that the buffers are what `SetUp` made of them
until a body writes (`InMemory`).  `InRegisters` is what makes the order of the
benchmarks harmless: memmove leaves BND2 inside the first buffer, and another
benchmark runs only after a `SetUp`, which writes both registers.

None of the properties of the process is inductive.  `ProcessInv` adds, for each thread:

* `InControl`: the function of the call, the control point and the return link
  agree.  Without it a `sanitize` could return into a mutator of another half.
* `InContext`: the context is initial, or both bits of `BNDCFGU` are set on a
  machine that passed the check.  Hence near branches never clear a register
  that holds something, and off means clean.
* `BetweenRestores`: between the two `XRSTOR`s the context is initial, which is
  what makes the second one a mere switch.
* `InReturn`: what an accessor loaded is what the register still holds when the
  client or the mutator receives it.  It is what linearizes a read at its return
  and makes `bndmk` restore the half it keeps.
* `InSlots`: a spill that will be cleared lies at the depth of the accessor that
  will clear it.
* `InAnswer`: the answers while idle.

The arithmetic of the proofs is in lemmas about sums, differences and
complements modulo `M`.  The refinement has one step per action: the accessor's
first step and the mutator's nested call stutter, `sanitize`, `qgetbndl` and the
`bndmk` steps are `Read` and `Write`.

Only model-checked: the liveness properties `CallsReturn`, `StringCallsReturn`,
`TraversalEnds`, `LoadingEnds` and `SuiteEnds`, because liveness under fairness is
outside the prover's reach.  Every other property of a passing run is a theorem.
The violations are counterexamples of TLC.

## 5. Not modelled

Left out of the modelled components: messages on stderr and in the kernel's log,
the never-called `xsave_state` and `xgetbv`, 32-bit builds (but for the answer of
`__get_cpuid_max` on a processor without CPUID), and signal handlers, whose frames
start just below the slot.

`TraversalFixture` of `benchmark.cpp` calls the two functions that `Traverse` models
for every address and size.  `LoadStoreFixture` runs single inline assembly instructions whose
results nothing reads, and the harness that times the benchmarks is not in the
tree.

The Blowfish patch replaces a parameter by a register that a test driver sets
once.  Which callers of OpenSSL set it, and whether any uses two keys, is in files
that the tree does not have; the hazard is listed.  The deepsjeng patch puts the
addresses of two structures in registers at the start of `main`, reads them in place
of two globals, and frees them at the end: no order in the lines it shows could go
wrong.

`json_to_csv.py`, the build files, the recorded results and the paper have no
state to reason about.
