------------------------------- MODULE Kmod --------------------------------
(***************************************************************************)
(* simplexkm.c: the kernel module, loaded and unloaded by tasks of a       *)
(* preemptive kernel with several processors.  A bounds register and       *)
(* BNDCFGU are registers of a processor; the kernel saves them for a task  *)
(* that leaves it and loads those of the task that enters.                 *)
(***************************************************************************)
EXTENDS Cpuid

CONSTANTS Cpus,       \* the processors
          Tasks,      \* the tasks that there may be at a time
          FirstTask,  \* the one that the kernel starts
          NoTask      \* what an idle processor runs

ASSUME TasksAssumption == FirstTask \in Tasks /\ NoTask \notin Tasks

VARIABLES platform, \* the machine; never changes
          module,   \* the kernel's record of the module
          pc,       \* where each task is
          running,  \* the task on each processor
          hw,       \* the MPX registers of each processor
          saved     \* what the kernel saved for each task

vars == <<platform, module, pc, running, hw, saved>>

ModulePoints == {"enable_init", "enable_mpx", "enable_cleanup", "disable_mpx"}

TypeOK ==
  /\ platform \in Platforms
  /\ module \in {"absent", "coming", "live", "going"}
  /\ pc \in [Tasks -> ModulePoints \cup {"unborn", "user"}]
  /\ running \in [Cpus -> Tasks \cup {NoTask}]
  /\ hw \in [Cpus -> Context]
  /\ saved \in [Tasks -> Context]

Init ==
  /\ platform \in Platforms
  /\ module = "absent"
  /\ pc = [t \in Tasks |-> IF t = FirstTask THEN "user" ELSE "unborn"]
  /\ running = [c \in Cpus |-> NoTask]
  /\ hw = [c \in Cpus |-> InitContext]
  /\ saved = [t \in Tasks |-> InitContext]

-----------------------------------------------------------------------------
\* The statics of simplexkm.c, which nothing writes.
enable == 1
bndpreserve == 1

\* The same questions as check_mpx_support of mpxrt.c, with the same mistake: leaf
\* 0 is asked for XSAVE and OSXSAVE.
check_no_mpx_support(p) ==
  \/ get_cpuid_max(p) < 13
  \/ ~({bit_XSAVE, bit_OSXSAVE} \subseteq p.signature_ecx)
  \/ ~p.mpx
  \/ p.xsave_components # MpxComponents

\* Plausible bug: the bits counted from one.
BitFromOne(value, number) == IF value = 1 THEN {number + 1} ELSE {}

Bit(value, number) == IF value = 1 THEN {number} ELSE {}
cfg_reg_u == Bit(enable, MPX_ENABLE_BIT_NO) \cup Bit(bndpreserve, BNDPRESERVE_BIT_NO)

Goto(c, point) == pc' = [pc EXCEPT ![running[c]] = point]

\* A fault in the kernel kills the task that it runs; nobody completes what the
\* task was doing, so the kernel's record of the module stays as it is.
Oops(c) ==
  /\ Goto(c, "unborn")
  /\ running' = [running EXCEPT ![c] = NoTask]
  /\ UNCHANGED <<platform, module, hw, saved>>

\* XRSTOR acts on the processor that executes it.
xrstor_state(c, mask, xstate_bv, cfg) ==
  hw' = [hw EXCEPT ![c] =
           Xrstor(platform, @, mask, xstate_bv, [bnd |-> InitContext.bnd, cfg |-> cfg])]

\* Plausible bug: the first XRSTOR names the configuration alone.
RestoreCsrOnly(c, next) ==
  \/ XrstorFaults(platform, {}) /\ Oops(c)
  \/ /\ ~XrstorFaults(platform, {})
     /\ xrstor_state(c, {"BNDCSR"}, {}, {})
     /\ Goto(c, next)
     /\ UNCHANGED <<platform, module, running, saved>>

\* The XRSTOR of both components with an empty header.
RestoreNothing(c, next) ==
  \/ XrstorFaults(platform, {}) /\ Oops(c)
  \/ /\ ~XrstorFaults(platform, {})
     /\ xrstor_state(c, MpxComponents, {}, {})
     /\ Goto(c, next)
     /\ UNCHANGED <<platform, module, running, saved>>

\* Plausible bug: a header that names a component outside the mask, 0x210.
RestoreWrongHeader(c, cfg, after) ==
  \/ XrstorFaults(platform, {"BNDCSR", "PKRU"}) /\ Oops(c)
  \/ /\ ~XrstorFaults(platform, {"BNDCSR", "PKRU"})
     /\ xrstor_state(c, {"BNDCSR"}, {"BNDCSR"}, cfg)
     /\ Goto(c, "user")
     /\ module' = after
     /\ UNCHANGED <<platform, running, saved>>

\* The XRSTOR of BNDCSR alone, and the return to the kernel.
RestoreCfg(c, cfg, after) ==
  \/ XrstorFaults(platform, {"BNDCSR"}) /\ Oops(c)
  \/ /\ ~XrstorFaults(platform, {"BNDCSR"})
     /\ xrstor_state(c, {"BNDCSR"}, {"BNDCSR"}, cfg)
     /\ Goto(c, "user")
     /\ module' = after
     /\ UNCHANGED <<platform, running, saved>>

\* The kernel unloads a module whose init function returned a negative number.
\* After a positive one it logs a warning, "loading module anyway".
AfterInit(ret) == IF ret < 0 THEN "absent" ELSE "live"

\* Plausible bug: the machine is asked again until it has MPX.
AsksAgain(c, after) == check_no_mpx_support(platform) /\ UNCHANGED vars

Unsupported(c, after) ==
  /\ check_no_mpx_support(platform)
  /\ module' = after
  /\ Goto(c, "user")
  /\ UNCHANGED <<platform, running, hw, saved>>

enable_init(c) ==
  /\ pc[running[c]] = "enable_init"
  /\ \/ Unsupported(c, AfterInit(1))
     \/ ~check_no_mpx_support(platform) /\ RestoreNothing(c, "enable_mpx")

enable_mpx(c) ==
  /\ pc[running[c]] = "enable_mpx"
  /\ RestoreCfg(c, cfg_reg_u, AfterInit(0))

\* Plausible bug: unloading goes through the enabling path.
CleanupEnables(c) ==
  /\ pc[running[c]] = "enable_cleanup"
  /\ \/ Unsupported(c, "absent")
     \/ ~check_no_mpx_support(platform) /\ RestoreNothing(c, "enable_mpx")

enable_cleanup(c) ==
  /\ pc[running[c]] = "enable_cleanup"
  /\ \/ Unsupported(c, "absent")
     \/ ~check_no_mpx_support(platform) /\ RestoreNothing(c, "disable_mpx")

disable_mpx(c) ==
  /\ pc[running[c]] = "disable_mpx"
  /\ RestoreCfg(c, {}, "absent")

ModuleStep(c) ==
  /\ running[c] \in Tasks
  /\ enable_init(c) \/ enable_mpx(c) \/ enable_cleanup(c) \/ disable_mpx(c)

-----------------------------------------------------------------------------
\* The kernel and the programs that it runs.

InUser(c) == running[c] \in Tasks /\ pc[running[c]] = "user"

\* The first task is init: it never exits, and others load modules for it.
ByProgram(c) == InUser(c) /\ running[c] # FirstTask

\* init_module and delete_module: the kernel lets one task at a time into a module.
Insmod(c) ==
  /\ ByProgram(c) /\ module = "absent"
  /\ module' = "coming"
  /\ Goto(c, "enable_init")
  /\ UNCHANGED <<platform, running, hw, saved>>

Rmmod(c) ==
  /\ ByProgram(c) /\ module = "live"
  /\ module' = "going"
  /\ Goto(c, "enable_cleanup")
  /\ UNCHANGED <<platform, running, hw, saved>>

\* A program executes bndmk, or the library's process_specific_init (on a machine
\* that can) or process_specific_finish; execve gives it the initial context.
UseMpx(c) ==
  /\ InUser(c)
  /\ \/ \E r \in BndRegs, w \in Word : hw' = [hw EXCEPT ![c] = Bndmk(@, r, w, 0)]
     \/ platform.xcr0 = MpxComponents /\ hw' = [hw EXCEPT ![c] = [InitContext EXCEPT !.cfg = CfgBits]]
     \/ hw' = [hw EXCEPT ![c] = InitContext]
  /\ UNCHANGED <<platform, module, pc, running, saved>>

\* fork copies the context of the task that runs, not what was last saved for it.
Fork(c, u) ==
  /\ InUser(c) /\ pc[u] = "unborn"
  /\ pc' = [pc EXCEPT ![u] = "user"]
  /\ saved' = [saved EXCEPT ![u] = hw[c]]
  /\ UNCHANGED <<platform, module, running, hw>>

Exit(c) ==
  /\ ByProgram(c)
  /\ Goto(c, "unborn")
  /\ running' = [running EXCEPT ![c] = NoTask]
  /\ UNCHANGED <<platform, module, hw, saved>>

\* The scheduler takes a task off its processor, in the module's code as anywhere
\* else, and puts it on any idle one.
SwitchOut(c) ==
  /\ running[c] \in Tasks
  /\ saved' = [saved EXCEPT ![running[c]] = hw[c]]
  /\ running' = [running EXCEPT ![c] = NoTask]
  /\ UNCHANGED <<platform, module, pc, hw>>

OnCpu(t) == \E c \in Cpus : running[c] = t

SwitchIn(c, t) ==
  /\ running[c] = NoTask /\ ~OnCpu(t) /\ pc[t] # "unborn"
  /\ hw' = [hw EXCEPT ![c] = saved[t]]
  /\ running' = [running EXCEPT ![c] = t]
  /\ UNCHANGED <<platform, module, pc, saved>>

KernelStep(c) ==
  \/ Insmod(c) \/ Rmmod(c) \/ UseMpx(c) \/ Exit(c) \/ SwitchOut(c)
  \/ \E t \in Tasks : Fork(c, t) \/ SwitchIn(c, t)

Next == \E c \in Cpus : ModuleStep(c) \/ KernelStep(c)

Spec == Init /\ [][Next]_vars

\* The scheduler starves no task: it takes each off its processor in time, a task that
\* is time and again able to enter a processor does, and one that is time and again
\* on one takes its next step.  Nothing is needed of the first task.
RunsModule(t) == \E c \in Cpus : running[c] = t /\ ModuleStep(c)
FairSpec ==
  /\ Spec
  /\ \A c \in Cpus : WF_vars(SwitchOut(c))
  /\ \A t \in Tasks \ {FirstTask} : SF_vars(\E c \in Cpus : SwitchIn(c, t)) /\ SF_vars(RunsModule(t))

-----------------------------------------------------------------------------
\* The context of a task: in the processor that runs it, or saved.
CpuOf(t) == CHOOSE c \in Cpus : running[c] = t
ContextOf(t) == IF OnCpu(t) THEN hw[CpuOf(t)] ELSE saved[t]
Own == [t \in Tasks |-> IF pc[t] = "unborn" THEN InitContext ELSE ContextOf(t)]

PerTask == INSTANCE TaskContexts WITH
  supported <- ~check_no_mpx_support(platform),
  enables <- platform.xcr0 = MpxComponents,
  own <- Own

(* Whatever the scheduler does between and within the module's functions,     *)
(* each of the two XRSTORs of enable_mpx and disable_mpx lands in the context *)
(* of the task that called insmod or rmmod, and in no other task's.           *)
ImplementsTaskContexts == PerTask!OwnSpec

\* Nobody will complete a load or an unload that was begun.
Stuck == module \in {"coming", "going"} /\ \A t \in Tasks : pc[t] \notin ModulePoints

(* A fault leaves the module half loaded or half unloaded only where CPUID    *)
(* passed the check although the kernel does not enable MPX.                 *)
StuckOnlyWithoutKernelSupport ==
  Stuck => /\ ~check_no_mpx_support(platform)
           /\ ~platform.osxsave \/ platform.xcr0 = {}

(* A load ends with the module live, an unload with it absent, unless a fault *)
(* leaves either half done.  A load ends live where enable_init found no MPX, *)
(* too: it returns 1, and no non-zero return but a negative one makes the     *)
(* kernel give up a load.                                                     *)
LoadingEnds ==
  /\ module = "coming" ~> module = "live" \/ Stuck
  /\ module = "going" ~> module = "absent" \/ Stuck

(* What the module's README and description say of loading it: that it        *)
(* enables MPX globally, for all processes.  What the code does is to enable  *)
(* it for the task that runs insmod.                                          *)
LoadingEnablesAll ==
  [][module = "coming" /\ module' = "live" =>
       \A t \in Tasks : pc[t] # "unborn" => MpxOn(ContextOf(t)')]_vars

-----------------------------------------------------------------------------
\* The inductive invariant.

\* A task is on one processor at most, and only if it lives.
OnOneCpu ==
  /\ \A c, d \in Cpus : running[c] = running[d] /\ running[c] \in Tasks => c = d
  /\ \A c \in Cpus : running[c] \in Tasks => pc[running[c]] # "unborn"

\* The module's functions run in one task, while the kernel's record says so.
OneInModule ==
  \A t \in Tasks :
    /\ pc[t] \in {"enable_init", "enable_mpx"} => module = "coming"
    /\ pc[t] \in {"enable_cleanup", "disable_mpx"} => module = "going"
    /\ pc[t] \in ModulePoints => \A u \in Tasks \ {t} : pc[u] \notin ModulePoints

\* Between the XRSTORs the check has passed, XRSTOR works, and the context is clean.
BetweenRestores ==
  \A t \in Tasks : pc[t] \in {"enable_mpx", "disable_mpx"} =>
    /\ ~check_no_mpx_support(platform) /\ platform.osxsave
    /\ platform.xcr0 = MpxComponents => ContextOf(t) = InitContext

\* Under a kernel that does not enable MPX no processor and no task has it.
OnlyEnabledKernels ==
  platform.xcr0 # MpxComponents =>
    /\ \A c \in Cpus : hw[c] = InitContext
    /\ \A t \in Tasks : saved[t] = InitContext

KmodInv ==
  /\ OnOneCpu
  /\ OneInModule
  /\ BetweenRestores
  /\ OnlyEnabledKernels
  /\ StuckOnlyWithoutKernelSupport
=============================================================================
