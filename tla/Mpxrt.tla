------------------------------- MODULE Mpxrt -------------------------------
(***************************************************************************)
(* mpxrt.c: the functions that turn MPX on and off for the calling thread. *)
(***************************************************************************)
EXTENDS ThreadContext

\* Plausible bugs: a static left at 0.
NotEnabled == 0
NotPreserved == 0

\* The statics of mpxrt.c, which nothing writes.
enable == 1
bndpreserve == 1

\* CPUID leaf 0, not 1, is asked for XSAVE and OSXSAVE: its ECX holds a part of
\* the vendor's name.
check_mpx_support(p) ==
  /\ get_cpuid_max(p) >= 13
  /\ {bit_XSAVE, bit_OSXSAVE} \subseteq p.signature_ecx
  /\ p.mpx
  /\ p.xsave_components = MpxComponents

\* A plausible bug: the bits counted from one.
BitFromOne(value, number) == IF value = 1 THEN {number + 1} ELSE {}

Bit(value, number) == IF value = 1 THEN {number} ELSE {}
cfg_reg_u == Bit(enable, MPX_ENABLE_BIT_NO) \cup Bit(bndpreserve, BNDPRESERVE_BIT_NO)

ReturnBool(t, b, c) == Return(t, [lo |-> IF b THEN 1 ELSE 0, hi |-> 0], c)

\* #UD or #GP in user mode: the signal ends the process.
Fault == alive' = FALSE /\ UNCHANGED <<platform, pc, ctx, slot, call, link, out>>

xrstor_state(t, mask, xstate_bv, cfg) ==
  Xrstor(platform, ctx[t], mask, xstate_bv, [bnd |-> InitContext.bnd, cfg |-> cfg])

\* A plausible bug: the first XRSTOR leaves the bounds registers as they are.
RestoreCsrOnly(t, next) ==
  \/ XrstorFaults(platform, {}) /\ Fault
  \/ /\ ~XrstorFaults(platform, {})
     /\ ctx' = [ctx EXCEPT ![t] = xrstor_state(t, {"BNDCSR"}, {}, {})]
     /\ pc' = [pc EXCEPT ![t] = next]
     /\ UNCHANGED <<platform, alive, slot, call, link, out>>

\* memset of the buffer, whose 4096 bytes may cover the slots, and the XRSTOR of
\* both components with an empty header.
RestoreNothing(t, next) ==
  \/ XrstorFaults(platform, {}) /\ Fault
  \/ /\ ~XrstorFaults(platform, {})
     /\ Overlay(t, {Blank})
     /\ ctx' = [ctx EXCEPT ![t] = xrstor_state(t, MpxComponents, {}, {})]
     /\ pc' = [pc EXCEPT ![t] = next]
     /\ UNCHANGED <<platform, alive, call, link, out>>

\* A plausible bug: a header that names a component outside the mask, 0x210.
RestoreWrongHeader(t, cfg) ==
  \/ XrstorFaults(platform, {"BNDCSR", "PKRU"}) /\ Fault
  \/ /\ ~XrstorFaults(platform, {"BNDCSR", "PKRU"})
     /\ ReturnBool(t, TRUE, xrstor_state(t, {"BNDCSR"}, {"BNDCSR"}, cfg))
     /\ UNCHANGED slot

\* The XRSTOR of BNDCSR alone, and the return of true.
RestoreCfg(t, cfg) ==
  \/ XrstorFaults(platform, {"BNDCSR"}) /\ Fault
  \/ /\ ~XrstorFaults(platform, {"BNDCSR"})
     /\ ReturnBool(t, TRUE, xrstor_state(t, {"BNDCSR"}, {"BNDCSR"}, cfg))
     /\ UNCHANGED slot

\* A plausible bug: the result of the check is dropped.
AnswerTrueAnyway(t) ==
  /\ ~check_mpx_support(platform)
  /\ ReturnBool(t, TRUE, ctx[t])
  /\ UNCHANGED slot

Unsupported(t) ==
  /\ ~check_mpx_support(platform)
  /\ ReturnBool(t, FALSE, ctx[t])
  /\ UNCHANGED slot

process_specific_init(t) ==
  /\ pc[t] = "process_specific_init"
  /\ \/ Unsupported(t)
     \/ check_mpx_support(platform) /\ RestoreNothing(t, "enable_mpx")

enable_mpx(t) ==
  /\ pc[t] = "enable_mpx"
  /\ RestoreCfg(t, cfg_reg_u)

process_specific_finish(t) ==
  /\ pc[t] = "process_specific_finish"
  /\ \/ Unsupported(t)
     \/ check_mpx_support(platform) /\ RestoreNothing(t, "disable_mpx")

disable_mpx(t) ==
  /\ pc[t] = "disable_mpx"
  /\ RestoreCfg(t, {})

MpxrtStep(t) ==
  \/ process_specific_init(t) \/ enable_mpx(t)
  \/ process_specific_finish(t) \/ disable_mpx(t)
=============================================================================
