------------------------------ MODULE Traverse -----------------------------
(***************************************************************************)
(* gptraverse.S and mpxtraverse.S: a loop that reads a word of each half   *)
(* of a buffer at the same offset.  The first keeps the start of the       *)
(* buffer and its midpoint in registers, the second in the lower halves of *)
(* BND0 and BND1.  An action is the code before the loop or one round.     *)
(***************************************************************************)
EXTENDS Mpx

CONSTANTS Mapped,     \* the addresses that the process can read
          Buffers,    \* the arguments of the client
          JunkWords   \* what the client's frames leave on the stack

Cursors == {"BND0", "BND1"}

WordBytes == 8

\* Address 0 is never mapped.
ASSUME TraverseAssumption ==
  /\ M > WordBytes
  /\ Mapped \subseteq Word \ {0}
  /\ Buffers \subseteq [src : Word, sz : Word]
  /\ JunkWords \subseteq Word
  /\ Cursors \subseteq BndRegs

Variants == {"gptraverse", "mpxtraverse"}
Registers == {"rax", "rcx", "rdx", "r8", "r9", "rbp"}

VARIABLES pc,     \* idle, the loop, returned, or killed by a fault
          variant, \* the function called
          arg,    \* its arguments
          rdx,    \* the counter
          rsi,    \* the midpoint, in gptraverse
          ctx,    \* the thread's MPX context
          slot,   \* -0x10(%rsp) and -0x20(%rsp): where the registers are spilled
          holds,  \* the register whose value at the call each register has
          pairs   \* the addresses read so far

traverseVars == <<pc, variant, arg, rdx, rsi, ctx, slot, holds, pairs>>

TypeOK ==
  /\ pc \in {"idle", "continue", "returned", "killed"}
  /\ variant \in Variants
  /\ arg \in [src : Word, sz : Word]
  /\ rdx \in Word /\ rsi \in Word
  /\ ctx \in Context
  /\ slot \in [Cursors -> Bounds]
  /\ holds \in [Registers -> Registers]
  /\ pairs \subseteq Word \X Word

Itself == [r \in Registers |-> r]

\* process_specific_init left MPX on, with BNDPRESERVE, so that the jumps of the
\* loops keep the registers; or it is off.
Init ==
  /\ pc = "idle"
  /\ variant \in Variants
  /\ arg = [src |-> 0, sz |-> 0]
  /\ rdx = 0 /\ rsi = 0
  /\ ctx \in {InitContext, [InitContext EXCEPT !.cfg = CfgBits]}
  /\ slot = [r \in Cursors |-> InitBounds]
  /\ holds = Itself
  /\ pairs = {}

-----------------------------------------------------------------------------
Half(sz) == sz \div 2

\* Plausible bug: half is decremented before it is added to the base.
BoundsBeforeMidpoint(c, src, half) ==
  Bndmk(Bndmk(c, "BND0", src, Minus(half, 1)),
        "BND1", Plus(src, Minus(half, 1)), Minus(half, 1))

BoundsOfHalves(c, src, half) ==
  Bndmk(Bndmk(c, "BND0", src, Minus(half, 1)),
        "BND1", Plus(src, half), Minus(half, 1))

\* The call, with the stack and the arguments that the client likes.
Call(fn, buffer) ==
  /\ pc = "idle"
  /\ pc' = "continue"
  /\ variant' = fn
  /\ arg' = buffer
  /\ rdx' = 0
  /\ rsi' = IF fn = "gptraverse" THEN Plus(buffer.src, Half(buffer.sz)) ELSE Half(buffer.sz)
  /\ ctx' = IF fn = "gptraverse" THEN ctx ELSE BoundsOfHalves(ctx, buffer.src, Half(buffer.sz))
  /\ \E w0, w1 \in JunkWords :
       slot' = [slot EXCEPT !["BND0"] = [lb |-> w0, ub |-> w0],
                            !["BND1"] = [lb |-> w1, ub |-> w1]]
  /\ pairs' = {}
  /\ UNCHANGED holds

\* %rax and %rcx: bndmov to the stack is a NOP while MPX is off, and the load that
\* follows finds what was there.
Fetched(r) ==
  IF variant = "gptraverse" THEN (IF r = "BND0" THEN arg.src ELSE rsi)
  ELSE IF MpxOn(ctx) THEN ctx.bnd[r].lb ELSE slot[r].lb

\* The four andq of mpxtraverse.  A plausible bug: only one slot is cleared.
HalfSanitized ==
  IF variant = "gptraverse" THEN slot
  ELSE [r \in Cursors |->
          IF r = "BND0" THEN InitBounds
          ELSE IF MpxOn(ctx) THEN ctx.bnd[r] ELSE slot[r]]
Sanitized ==
  IF variant = "gptraverse" THEN slot ELSE [r \in Cursors |-> InitBounds]

\* The popped values in the order of the pops, which is the same in both functions,
\* from the pushes, which are not: gptraverse exchanges %rcx and %rdx.
Popped(fn) ==
  IF fn = "gptraverse"
  THEN [Itself EXCEPT !["rdx"] = "rcx", !["rcx"] = "rdx"]
  ELSE Itself

\* A read of eight bytes.
Bytes(a, n) == {Plus(a, i) : i \in 0 .. n - 1}
Readable(a) == Bytes(a, WordBytes) \subseteq Mapped

\* inc %rdx, and a plausible bug: it is missing.
NotAdvanced(k) == k
Advanced(k) == Plus(k, 1)

\* Plausible bug: the round tests the counter before it is incremented.
LastTestedEarly(k) == Plus(Fetched("BND0"), k) = Fetched("BND1")

\* The exit test, of the counter after the increment.
Last(k) == Plus(Fetched("BND0"), Advanced(k)) = Fetched("BND1")

Fault ==
  /\ pc' = "killed"
  /\ slot' = Sanitized
  /\ UNCHANGED <<variant, arg, rdx, rsi, ctx, holds, pairs>>

Round ==
  LET low == Plus(Fetched("BND0"), rdx)
      high == Plus(Fetched("BND1"), rdx)
  IN  /\ pc = "continue"
      /\ \/ ~(Readable(low) /\ Readable(high)) /\ Fault
         \/ /\ Readable(low) /\ Readable(high)
            /\ pairs' = pairs \cup {<<low, high>>}
            /\ slot' = Sanitized
            /\ rdx' = Advanced(rdx)
            /\ IF Last(rdx)
               THEN pc' = "returned" /\ holds' = Popped(variant)
               ELSE UNCHANGED <<pc, holds>>
            /\ UNCHANGED <<variant, arg, rsi, ctx>>

\* The client goes on after a return.
Resume ==
  /\ pc = "returned"
  /\ pc' = "idle"
  /\ arg' = [src |-> 0, sz |-> 0]
  /\ rdx' = 0 /\ rsi' = 0
  /\ slot' = [r \in Cursors |-> InitBounds]
  /\ holds' = Itself
  /\ pairs' = {}
  /\ UNCHANGED <<variant, ctx>>

Next ==
  \/ \E fn \in Variants, b \in Buffers : Call(fn, b)
  \/ Round
  \/ Resume

Spec == Init /\ [][Next]_traverseVars

\* A function that was entered keeps running.
FairSpec == Spec /\ WF_traverseVars(Round)

-----------------------------------------------------------------------------
\* The pointers are those of the caller: always, but in mpxtraverse without MPX.
HasPointers == variant = "gptraverse" \/ MpxOn(ctx)

Middle == Plus(arg.src, Half(arg.sz))
PairsUpTo(n) == {<<Plus(arg.src, k), Plus(Middle, k)>> : k \in 0 .. n - 1}

(* A traversal that returns has read each word of the lower half with the      *)
(* word at the same offset of the upper half, no other pair and none twice,   *)
(* for every start and size.  A size below 2 never gets there: the test for   *)
(* the midpoint comes too late.                                              *)
(* Nothing is left in the slots below the stack pointer.  All registers that  *)
(* were saved are the caller's again, but for two: gptraverse pops %rdx where *)
(* it pushed %rcx, and exchanges them.                                        *)
TraversesHalves ==
  pc = "returned" /\ HasPointers =>
    /\ arg.sz >= 2
    /\ pairs = PairsUpTo(Half(arg.sz)) /\ rdx = Half(arg.sz)
    /\ variant = "mpxtraverse" => slot = [r \in Cursors |-> InitBounds] /\ holds = Itself
    /\ variant = "gptraverse" => holds["rcx"] = "rdx" /\ holds["rdx"] = "rcx"
    /\ \A r \in Registers \ {"rcx", "rdx"} : holds[r] = r

(* The last read begins in the buffer and ends up to seven bytes after it; a    *)
(* fault needs an unmapped byte in that range, a size below 2, or no MPX.     *)
FaultsOnlyOutside ==
  pc = "killed" =>
    \/ ~HasPointers
    \/ arg.sz < 2
    \/ ~(Bytes(arg.src, 2 * Half(arg.sz) + WordBytes - 1) \subseteq Mapped)

(* Every traversal ends: at the midpoint, or with a fault.                    *)
TraversalEnds == pc = "continue" ~> pc \in {"returned", "killed"}

-----------------------------------------------------------------------------
\* The inductive invariant.  The loop takes as many rounds as the half has bytes,
\* and would take M if it has none.
Rounds == IF Half(arg.sz) = 0 THEN M ELSE Half(arg.sz)

InContinue ==
  pc = "continue" /\ HasPointers =>
    /\ rdx < Rounds
    /\ pairs = PairsUpTo(rdx)
    /\ \A p \in pairs : p[1] \in Mapped
    /\ Fetched("BND0") = arg.src /\ Fetched("BND1") = Middle

CleanSlots ==
  variant = "mpxtraverse" /\ (pc = "returned" \/ rdx > 0) =>
    slot = [r \in Cursors |-> InitBounds]

TraverseInv ==
  /\ InContinue
  /\ CleanSlots
  /\ pc \in {"idle", "continue", "killed"} => holds = Itself
  /\ TraversesHalves
  /\ FaultsOnlyOutside
=============================================================================
