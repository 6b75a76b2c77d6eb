------------------------------- MODULE Mpx ---------------------------------
(***************************************************************************)
(* The part of Intel MPX that the library drives through inline assembly   *)
(* and XRSTOR.  The processor is not under src/: these operators say what  *)
(* the instructions used there do, and are external.                       *)
(*                                                                         *)
(* A word is a residue modulo M (2^64 on the machine).  A bounds register  *)
(* holds its lower bound and the one's complement of its upper bound.  A   *)
(* context is what XSAVE keeps for a thread: the bounds registers          *)
(* (BNDREGS) and the set of bits of BNDCFGU that are set (BNDCSR).         *)
(***************************************************************************)
EXTENDS Integers

CONSTANTS M,        \* number of values of a machine word
          BndRegs   \* the bounds registers

ASSUME MAssumption == M \in Nat /\ M >= 2

Word == 0 .. M - 1
Complement(w) == M - 1 - w
Plus(a, b) == (a + b) % M
Minus(a, b) == (a - b) % M

Bounds == [lb : Word, ub : Word]
InitBounds == [lb |-> 0, ub |-> 0]

\* bndmk (base,index): the upper bound is the effective address, complemented
BNDMK(base, index) == [lb |-> base, ub |-> Complement(Plus(base, index))]

MPX_ENABLE_BIT_NO == 0
BNDPRESERVE_BIT_NO == 1
CfgBits == {MPX_ENABLE_BIT_NO, BNDPRESERVE_BIT_NO}

Context == [bnd : [BndRegs -> Bounds], cfg : SUBSET CfgBits]
InitContext == [bnd |-> [r \in BndRegs |-> InitBounds], cfg |-> {}]

\* With the enable bit clear every MPX instruction is a NOP.
MpxOn(c) == MPX_ENABLE_BIT_NO \in c.cfg

Bndmk(c, r, base, index) ==
  IF MpxOn(c) THEN [c EXCEPT !.bnd[r] = BNDMK(base, index)] ELSE c

\* A near CALL or RET initialises the bounds registers unless BNDPRESERVE is set.
NearBranch(c) ==
  IF MpxOn(c) /\ BNDPRESERVE_BIT_NO \notin c.cfg
  THEN [c EXCEPT !.bnd = InitContext.bnd] ELSE c

MpxComponents == {"BNDREGS", "BNDCSR"}

\* XRSTOR raises #UD without CR4.OSXSAVE and #GP when the header's XSTATE_BV
\* names a component that XCR0 does not enable.
XrstorFaults(platform, xstate_bv) ==
  \/ ~platform.osxsave
  \/ ~(xstate_bv \subseteq platform.xcr0)

\* A component of the mask that XCR0 enables is loaded from the image if
\* XSTATE_BV names it and initialised if it does not.
Xrstor(platform, c, mask, xstate_bv, image) ==
  LET Restored(name, old, init, saved) ==
        IF name \notin mask \cap platform.xcr0 THEN old
        ELSE IF name \in xstate_bv THEN saved ELSE init
  IN  [bnd |-> Restored("BNDREGS", c.bnd, InitContext.bnd, image.bnd),
       cfg |-> Restored("BNDCSR", c.cfg, InitContext.cfg, image.cfg)]
=============================================================================
