---------------------------- MODULE MCTestSuite ----------------------------
(***************************************************************************)
(* Values of the constants for the runs of TestSuite: words of four bits,  *)
(* so that << 16 becomes << 2.                                             *)
(***************************************************************************)
EXTENDS TestSuite

CONSTANTS t1, b0, b1, b2, b3, other

OneThread == {t1}
FourRegs == {b0, b1, b2, b3}
InOrder == <<b0, b1, b2, b3>>
AnyArg == FourRegs \cup {other}
AllCalls == Functions
OneJunk == {9}

\* Every combination of what CPUID answers, for the vendors of cpuid.h, with what
\* the kernel enables.
AllPlatforms ==
  {p \in [cpuid : BOOLEAN, max_level : {7, 22},
          signature_ecx : {BitsOf(signature_ecx[v]) : v \in DOMAIN signature_ecx},
          mpx : BOOLEAN, xsave_components : SUBSET MpxComponents,
          osxsave : BOOLEAN, xcr0 : {{}, MpxComponents}] :
     p.xcr0 # {} => p.osxsave /\ p.mpx /\ p.xsave_components = MpxComponents}

=============================================================================
