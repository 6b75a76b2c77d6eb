------------------------------- MODULE Cpuid -------------------------------
(***************************************************************************)
(* cpuid.h, and simplexkm.h, which repeats it: what CPUID says of the      *)
(* machine that the library or the kernel module runs on.                  *)
(***************************************************************************)
EXTENDS Mpx

CONSTANT Platforms    \* the machines and kernels that there may be

\* One machine under one kernel: what CPUID answers (whether there is a CPUID, its
\* highest leaf, the bits of leaf 0's ECX, leaf 7's MPX bit, the components of
\* leaf 13's EAX) and what the kernel enabled (CR4.OSXSAVE, the MPX components
\* of XCR0).
Platform ==
  [cpuid : BOOLEAN, max_level : Nat, signature_ecx : SUBSET (0 .. 31), mpx : BOOLEAN,
   xsave_components : SUBSET MpxComponents,
   osxsave : BOOLEAN, xcr0 : {{}, MpxComponents}]

ASSUME PlatformsAssumption ==
  /\ Platforms \subseteq Platform
  /\ \A p \in Platforms :
       p.xcr0 # {} => p.osxsave /\ p.mpx /\ p.xsave_components = MpxComponents

bit_XSAVE == 26
bit_OSXSAVE == 27

\* ECX of leaf 0: the last four letters of each vendor's name.
signature_ecx ==
  [AMD |-> 1145913699, CENTAUR |-> 1936487777, CYRIX |-> 1684104564,
   INTEL |-> 1818588270, TM1 |-> 1431323489, TM2 |-> 909670477,
   NSC |-> 1129532960, NEXGEN |-> 1852143209, RISE |-> 1702062418,
   SIS |-> 542337363, UMC |-> 541281621, VIA |-> 541149526,
   VORTEX |-> 1131369248]

BitsOf(w) == {b \in 0 .. 30 : (w \div 2^b) % 2 = 1}

\* A build for i386 answers 0 on a processor without CPUID; a 64-bit one has it.
get_cpuid_max(p) == IF p.cpuid THEN p.max_level ELSE 0
=============================================================================
