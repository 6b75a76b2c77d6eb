------------------------------- MODULE MCKmod ------------------------------
(***************************************************************************)
(* Values of the constants for the runs of Kmod.                           *)
(***************************************************************************)
EXTENDS Kmod

CONSTANTS c1, c2, t1, t2, t3, b0

TwoCpus == {c1, c2}
ThreeTasks == {t1, t2, t3}
OneReg == {b0}

\* An Intel machine with MPX under a kernel that enables it.
Ready ==
  [cpuid |-> TRUE, max_level |-> 22, signature_ecx |-> BitsOf(signature_ecx["INTEL"]),
   mpx |-> TRUE, xsave_components |-> MpxComponents,
   osxsave |-> TRUE, xcr0 |-> MpxComponents]

ReadyOnly == {Ready}

\* It, under kernels that enable XSAVE alone or nothing, and a machine without MPX.
Machines ==
  {Ready, [Ready EXCEPT !.xcr0 = {}], [Ready EXCEPT !.xcr0 = {}, !.osxsave = FALSE],
   [Ready EXCEPT !.xcr0 = {}, !.xsave_components = {}]}
=============================================================================
