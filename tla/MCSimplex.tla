------------------------------ MODULE MCSimplex ----------------------------
(***************************************************************************)
(* Values of the constants for the runs of SimplexProcess.                 *)
(***************************************************************************)
EXTENDS SimplexProcess

CONSTANTS t1, t2, b0, b1, other

OneThread == {t1}
TwoThreads == {t1, t2}
OneReg == {b0}
TwoRegs == {b0, b1}

AnyArg == {b0, b1, other}
AnyOne == {b0, other}
ValidArg == {b0}
ValidArgs == {b0, b1}

AllCalls == Functions
ThreadCalls == {"qgetbndl", "setbndl"} \cup RuntimeFunctions
InitOnly == {"process_specific_init", "qgetbndl"}

NoJunk == {}
OneJunk == {1}

\* A machine with MPX under a kernel that enables it.
Ready ==
  [cpuid |-> TRUE, max_level |-> 22, signature_ecx |-> BitsOf(signature_ecx["INTEL"]),
   mpx |-> TRUE, xsave_components |-> MpxComponents,
   osxsave |-> TRUE, xcr0 |-> MpxComponents]

ReadyOnly == {Ready}

\* Intel machines with MPX, under kernels that do and do not enable it.
MpxMachines == {[Ready EXCEPT !.osxsave = (k # "none"),
                              !.xcr0 = IF k = "mpx" THEN MpxComponents ELSE {}] :
                  k \in {"mpx", "xsave", "none"}}

\* And one without it.
ThreadMachines == MpxMachines \cup {[Ready EXCEPT !.xcr0 = {}, !.mpx = FALSE]}
=============================================================================
