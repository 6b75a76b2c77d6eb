---------------------------- MODULE Kmod_proofs ----------------------------
(***************************************************************************)
(* Theorems about Kmod for any number of processors, tasks and registers,  *)
(* any word size and any set of machines.                                  *)
(***************************************************************************)
EXTENDS Kmod, TLAPS

-----------------------------------------------------------------------------
(* What the operators the model is built from return.                        *)

LEMMA InitContextType == InitContext \in Context
  BY MAssumption DEF InitContext, InitBounds, Context, Bounds, Word

LEMMA ContextWithCfg ==
  ASSUME NEW c \in Context, NEW cfg \in SUBSET CfgBits
  PROVE  [bnd |-> c.bnd, cfg |-> cfg] \in Context
  BY DEF Context

LEMMA BndmkType ==
  ASSUME NEW c \in Context, NEW r \in BndRegs, NEW w \in Word
  PROVE  Bndmk(c, r, w, 0) \in Context
<1>1. Plus(w, 0) \in Word
  BY MAssumption DEF Word, Plus
<1>2. BNDMK(w, 0) \in Bounds
  BY <1>1, MAssumption DEF BNDMK, Bounds, Complement, Word
<1> QED  BY <1>2 DEF Bndmk, Context

LEMMA CfgRegU == cfg_reg_u = CfgBits
  BY DEF cfg_reg_u, Bit, enable, bndpreserve, CfgBits

LEMMA MachineFacts ==
  ASSUME TypeOK
  PROVE  /\ platform.osxsave \in BOOLEAN
         /\ platform.xcr0 = {} \/ platform.xcr0 = MpxComponents
         /\ platform.xcr0 # {} => platform.osxsave
         /\ XrstorFaults(platform, {}) <=> ~platform.osxsave
         /\ XrstorFaults(platform, {"BNDCSR"}) <=> platform.xcr0 # MpxComponents
<1>1. platform \in Platform /\ (platform.xcr0 # {} => platform.osxsave)
  BY PlatformsAssumption DEF TypeOK
<1>2. platform.osxsave \in BOOLEAN /\ platform.xcr0 \in {{}, MpxComponents}
  BY <1>1 DEF Platform
<1> QED  BY <1>1, <1>2 DEF XrstorFaults, MpxComponents

(* The XRSTOR of both components with an empty header: it gives the initial   *)
(* context where the kernel enables MPX and has no effect elsewhere.         *)
LEMMA RestoresNothing ==
  ASSUME TypeOK, NEW c \in Cpus, xrstor_state(c, MpxComponents, {}, {})
  PROVE  hw' = [hw EXCEPT ![c] = IF platform.xcr0 = MpxComponents THEN InitContext ELSE @]
<1>1. platform.xcr0 = {} \/ platform.xcr0 = MpxComponents
  BY MachineFacts
<1>2. hw[c] = [bnd |-> hw[c].bnd, cfg |-> hw[c].cfg]
  BY DEF TypeOK, Context
<1>3. InitContext = [bnd |-> InitContext.bnd, cfg |-> InitContext.cfg]
  BY DEF InitContext
<1> DEFINE image == [bnd |-> InitContext.bnd, cfg |-> {}]
<1>4. CASE platform.xcr0 = {}
  <2>1. Xrstor(platform, hw[c], MpxComponents, {}, image) = hw[c]
    BY <1>2, <1>4 DEF Xrstor
  <2> QED  BY <2>1, <1>4 DEF xrstor_state, MpxComponents
<1>5. CASE platform.xcr0 = MpxComponents
  <2>1. Xrstor(platform, hw[c], MpxComponents, {}, image) = InitContext
    BY <1>3, <1>5 DEF Xrstor, MpxComponents
  <2> QED  BY <2>1, <1>5 DEF xrstor_state
<1> QED  BY <1>1, <1>4, <1>5

(* The XRSTOR of BNDCSR, where it does not fault, changes the configuration.  *)
LEMMA RestoresCfg ==
  ASSUME TypeOK, NEW c \in Cpus, NEW cfg,
         platform.xcr0 = MpxComponents, xrstor_state(c, {"BNDCSR"}, {"BNDCSR"}, cfg)
  PROVE  hw' = [hw EXCEPT ![c] = [bnd |-> hw[c].bnd, cfg |-> cfg]]
  BY DEF xrstor_state, Xrstor, MpxComponents

-----------------------------------------------------------------------------
(* Type correctness.                                                         *)

LEMMA InitType == Init => TypeOK
  BY InitContextType, TasksAssumption DEF Init, TypeOK

LEMMA GotoType ==
  ASSUME TypeOK, NEW c \in Cpus, running[c] \in Tasks,
         NEW point \in ModulePoints \cup {"unborn", "user"}, Goto(c, point)
  PROVE  pc' \in [Tasks -> ModulePoints \cup {"unborn", "user"}]
  BY DEF TypeOK, Goto

LEMMA OopsType ==
  ASSUME TypeOK, NEW c \in Cpus, running[c] \in Tasks, Oops(c)
  PROVE  TypeOK'
  BY GotoType DEF TypeOK, Oops

LEMMA RestoreNothingType ==
  ASSUME TypeOK, NEW c \in Cpus, running[c] \in Tasks,
         NEW next \in ModulePoints, RestoreNothing(c, next)
  PROVE  TypeOK'
<1>1. CASE Oops(c)
  BY <1>1, OopsType
<1>2. CASE xrstor_state(c, MpxComponents, {}, {}) /\ Goto(c, next)
           /\ UNCHANGED <<platform, module, running, saved>>
  <2>1. hw' \in [Cpus -> Context]
    BY <1>2, RestoresNothing, InitContextType DEF TypeOK
  <2> QED  BY <1>2, <2>1, GotoType DEF TypeOK
<1> QED  BY <1>1, <1>2 DEF RestoreNothing

LEMMA RestoreCfgType ==
  ASSUME TypeOK, NEW c \in Cpus, running[c] \in Tasks,
         NEW cfg \in SUBSET CfgBits, NEW after \in {"absent", "live"},
         RestoreCfg(c, cfg, after)
  PROVE  TypeOK'
<1>1. CASE Oops(c)
  BY <1>1, OopsType
<1>2. CASE /\ ~XrstorFaults(platform, {"BNDCSR"})
           /\ xrstor_state(c, {"BNDCSR"}, {"BNDCSR"}, cfg)
           /\ Goto(c, "user") /\ module' = after
           /\ UNCHANGED <<platform, running, saved>>
  <2>1. hw' \in [Cpus -> Context]
    BY <1>2, MachineFacts, RestoresCfg, ContextWithCfg DEF TypeOK
  <2> QED  BY <1>2, <2>1, GotoType DEF TypeOK
<1> QED  BY <1>1, <1>2 DEF RestoreCfg

LEMMA UnsupportedType ==
  ASSUME TypeOK, NEW c \in Cpus, running[c] \in Tasks,
         NEW after \in {"absent", "live"}, Unsupported(c, after)
  PROVE  TypeOK'
  BY GotoType DEF TypeOK, Unsupported

LEMMA ModuleStepType ==
  ASSUME TypeOK, NEW c \in Cpus, ModuleStep(c)
  PROVE  TypeOK'
<1>1. running[c] \in Tasks
  BY DEF ModuleStep
<1>2. CASE enable_init(c)
  BY <1>1, <1>2, UnsupportedType, RestoreNothingType DEF enable_init, AfterInit, ModulePoints
<1>3. CASE enable_mpx(c)
  <2>1. cfg_reg_u \in SUBSET CfgBits /\ AfterInit(0) = "live"
    BY CfgRegU DEF AfterInit
  <2> QED  BY <1>1, <1>3, <2>1, RestoreCfgType DEF enable_mpx
<1>4. CASE enable_cleanup(c)
  BY <1>1, <1>4, UnsupportedType, RestoreNothingType DEF enable_cleanup, ModulePoints
<1>5. CASE disable_mpx(c)
  BY <1>1, <1>5, RestoreCfgType DEF disable_mpx
<1> QED  BY <1>2, <1>3, <1>4, <1>5 DEF ModuleStep

LEMMA KernelStepType ==
  ASSUME TypeOK, NEW c \in Cpus, KernelStep(c)
  PROVE  TypeOK'
<1>1. CASE Insmod(c)
  BY <1>1 DEF Insmod, ByProgram, InUser, TypeOK, Goto, ModulePoints
<1>2. CASE Rmmod(c)
  BY <1>2 DEF Rmmod, ByProgram, InUser, TypeOK, Goto, ModulePoints
<1>3. CASE UseMpx(c)
  <2>1. \A x \in Context : [hw EXCEPT ![c] = x] \in [Cpus -> Context]
    BY DEF TypeOK
  <2>2. \A r \in BndRegs, w \in Word : Bndmk(hw[c], r, w, 0) \in Context
    BY BndmkType DEF TypeOK
  <2>3. [InitContext EXCEPT !.cfg = CfgBits] \in Context
    BY InitContextType DEF Context
  <2> QED  BY <1>3, <2>1, <2>2, <2>3, InitContextType DEF UseMpx, TypeOK
<1>4. CASE Exit(c)
  BY <1>4 DEF Exit, ByProgram, InUser, TypeOK, Goto
<1>5. CASE SwitchOut(c)
  BY <1>5 DEF SwitchOut, TypeOK
<1>6. ASSUME NEW t \in Tasks, Fork(c, t)
      PROVE  TypeOK'
  BY <1>6 DEF Fork, TypeOK
<1>7. ASSUME NEW t \in Tasks, SwitchIn(c, t)
      PROVE  TypeOK'
  BY <1>7 DEF SwitchIn, TypeOK
<1> QED  BY <1>1, <1>2, <1>3, <1>4, <1>5, <1>6, <1>7 DEF KernelStep

LEMMA StepType == TypeOK /\ [Next]_vars => TypeOK'
<1> SUFFICES ASSUME TypeOK, [Next]_vars PROVE TypeOK'
  OBVIOUS
<1>1. CASE UNCHANGED vars
  BY <1>1 DEF vars, TypeOK
<1> QED  BY <1>1, ModuleStepType, KernelStepType DEF Next

(* Every reachable state is well typed.                                      *)
THEOREM TypeCorrect == Spec => []TypeOK
  BY InitType, StepType, PTL DEF Spec
-----------------------------------------------------------------------------
(* Control: who runs where, and who is in the module.                        *)

LEMMA OnOneCpuStep ==
  ASSUME TypeOK, OnOneCpu, [Next]_vars
  PROVE  OnOneCpu'
<1>1. CASE UNCHANGED vars
  BY <1>1 DEF vars, OnOneCpu
<1>2. ASSUME NEW c \in Cpus, running[c] \in Tasks, UNCHANGED running,
             NEW point, point # "unborn", Goto(c, point)
      PROVE  OnOneCpu'
  BY <1>2 DEF OnOneCpu, Goto, TypeOK
<1>3. ASSUME NEW c \in Cpus, running[c] \in Tasks, Goto(c, "unborn"),
             running' = [running EXCEPT ![c] = NoTask]
      PROVE  OnOneCpu'
  BY <1>3, TasksAssumption DEF OnOneCpu, Goto, TypeOK
<1>4. ASSUME NEW c \in Cpus, ModuleStep(c)
      PROVE  OnOneCpu'
  BY <1>2, <1>3, <1>4 DEF ModuleStep, enable_init, enable_mpx, enable_cleanup, disable_mpx,
     Unsupported, RestoreNothing, RestoreCfg, Oops
<1>5. ASSUME NEW c \in Cpus, KernelStep(c)
      PROVE  OnOneCpu'
  <2>1. CASE Insmod(c) \/ Rmmod(c) \/ Exit(c)
    BY <1>2, <1>3, <2>1 DEF Insmod, Rmmod, Exit, ByProgram, InUser
  <2>2. CASE UseMpx(c)
    BY <2>2 DEF UseMpx, OnOneCpu
  <2>3. CASE SwitchOut(c)
    BY <2>3, TasksAssumption DEF SwitchOut, OnOneCpu, TypeOK
  <2>4. ASSUME NEW t \in Tasks, Fork(c, t)
        PROVE  OnOneCpu'
    BY <2>4 DEF Fork, OnOneCpu, TypeOK
  <2>5. ASSUME NEW t \in Tasks, SwitchIn(c, t)
        PROVE  OnOneCpu'
    BY <2>5, TasksAssumption DEF SwitchIn, OnCpu, OnOneCpu, TypeOK
  <2> QED  BY <1>5, <2>1, <2>2, <2>3, <2>4, <2>5 DEF KernelStep
<1> QED  BY <1>1, <1>4, <1>5 DEF Next

LEMMA OneInModuleStep ==
  ASSUME TypeOK, OneInModule, [Next]_vars
  PROVE  OneInModule'
<1>1. CASE UNCHANGED <<pc, module>>
  BY <1>1 DEF OneInModule
<1>2. ASSUME NEW c \in Cpus, running[c] \in Tasks, pc[running[c]] \in ModulePoints,
             NEW point \in {"unborn", "user"}, Goto(c, point)
      PROVE  OneInModule'
  BY <1>2 DEF OneInModule, Goto, TypeOK, ModulePoints
<1>3. ASSUME NEW c \in Cpus, running[c] \in Tasks, UNCHANGED module,
             \/ pc[running[c]] = "enable_init" /\ Goto(c, "enable_mpx")
             \/ pc[running[c]] = "enable_cleanup" /\ Goto(c, "disable_mpx")
      PROVE  OneInModule'
  BY <1>3 DEF OneInModule, Goto, TypeOK, ModulePoints
<1>4. ASSUME NEW c \in Cpus, ModuleStep(c)
      PROVE  OneInModule'
  BY <1>2, <1>3, <1>4 DEF ModuleStep, enable_init, enable_mpx, enable_cleanup, disable_mpx,
     Unsupported, RestoreNothing, RestoreCfg, Oops, ModulePoints
<1>5. ASSUME NEW c \in Cpus, KernelStep(c)
      PROVE  OneInModule'
  <2>1. CASE Insmod(c) \/ Rmmod(c)
    BY <2>1 DEF Insmod, Rmmod, ByProgram, InUser, OneInModule, Goto, TypeOK, ModulePoints
  <2>2. CASE UseMpx(c) \/ SwitchOut(c) \/ \E t \in Tasks : SwitchIn(c, t)
    BY <1>1, <2>2 DEF UseMpx, SwitchOut, SwitchIn
  <2>3. CASE Exit(c)
    BY <2>3 DEF Exit, ByProgram, InUser, OneInModule, Goto, TypeOK, ModulePoints
  <2>4. ASSUME NEW t \in Tasks, Fork(c, t)
        PROVE  OneInModule'
    BY <2>4 DEF Fork, OneInModule, TypeOK, ModulePoints
  <2> QED  BY <1>5, <2>1, <2>2, <2>3, <2>4 DEF KernelStep
<1> QED  BY <1>1, <1>4, <1>5 DEF Next, vars

LEMMA StuckStep ==
  ASSUME TypeOK, OneInModule, BetweenRestores, StuckOnlyWithoutKernelSupport, [Next]_vars
  PROVE  StuckOnlyWithoutKernelSupport'
<1> DEFINE NoSupport == /\ ~check_no_mpx_support(platform)
                        /\ ~platform.osxsave \/ platform.xcr0 = {}
<1>1. NoSupport' = NoSupport
  BY DEF vars, Next, ModuleStep, enable_init, enable_mpx, enable_cleanup, disable_mpx,
     Unsupported, RestoreNothing, RestoreCfg, Oops, KernelStep, Insmod, Rmmod, UseMpx,
     Exit, SwitchOut, Fork, SwitchIn, check_no_mpx_support
<1>2. CASE Stuck
  BY <1>1, <1>2 DEF StuckOnlyWithoutKernelSupport
<1>3. CASE ~Stuck /\ Stuck'
  <2>1. PICK c \in Cpus : ModuleStep(c) \/ KernelStep(c)
    BY <1>3 DEF Next, vars, Stuck
  <2>2. CASE KernelStep(c)
    <3>1. CASE Insmod(c) \/ Rmmod(c)
      <4>1. running[c] \in Tasks /\ pc'[running[c]] \in ModulePoints
        BY <3>1 DEF Insmod, Rmmod, ByProgram, InUser, Goto, TypeOK, ModulePoints
      <4> QED  BY <1>3, <4>1 DEF Stuck
    <3>2. CASE UseMpx(c) \/ SwitchOut(c) \/ \E t \in Tasks : SwitchIn(c, t)
      BY <1>3, <3>2 DEF UseMpx, SwitchOut, SwitchIn, Stuck
    <3>3. CASE Exit(c)
      BY <1>3, <3>3 DEF Exit, ByProgram, InUser, Goto, Stuck, TypeOK, ModulePoints
    <3>4. CASE \E t \in Tasks : Fork(c, t)
      BY <1>3, <3>4 DEF Fork, Stuck, TypeOK, ModulePoints
    <3> QED  BY <2>2, <3>1, <3>2, <3>3, <3>4 DEF KernelStep
  <2>3. CASE ModuleStep(c)
    <3>1. running[c] \in Tasks
      BY <2>3 DEF ModuleStep
    <3>2. ASSUME Unsupported(c, "absent") \/ Unsupported(c, "live")
          PROVE  FALSE
      BY <1>3, <3>2 DEF Unsupported, Stuck
    <3>3. ASSUME NEW next \in ModulePoints, ~check_no_mpx_support(platform), RestoreNothing(c, next)
          PROVE  NoSupport
      <4>1. CASE XrstorFaults(platform, {})
        BY <3>3, <4>1, MachineFacts
      <4>2. CASE Goto(c, next)
        <5>1. pc'[running[c]] \in ModulePoints
          BY <3>1, <4>2 DEF Goto, TypeOK
        <5> QED  BY <1>3, <3>1, <5>1 DEF Stuck
      <4> QED  BY <3>3, <4>1, <4>2 DEF RestoreNothing
    <3>4. ASSUME NEW cfg, NEW after \in {"absent", "live"}, RestoreCfg(c, cfg, after),
                 ~check_no_mpx_support(platform)
          PROVE  NoSupport
      <4>1. CASE XrstorFaults(platform, {"BNDCSR"})
        BY <3>4, <4>1, MachineFacts
      <4>2. CASE module' = after
        BY <1>3, <4>2 DEF Stuck
      <4> QED  BY <3>4, <4>1, <4>2 DEF RestoreCfg
    <3>5. CASE enable_init(c) \/ enable_cleanup(c)
      BY <1>1, <3>2, <3>3, <3>5 DEF enable_init, enable_cleanup, AfterInit, ModulePoints,
         StuckOnlyWithoutKernelSupport
    <3>6. CASE enable_mpx(c) \/ disable_mpx(c)
      <4>1. ~check_no_mpx_support(platform)
        BY <3>1, <3>6 DEF enable_mpx, disable_mpx, BetweenRestores
      <4> QED  BY <1>1, <3>4, <3>6, <4>1 DEF enable_mpx, disable_mpx, AfterInit,
                  StuckOnlyWithoutKernelSupport
    <3> QED  BY <2>3, <3>5, <3>6 DEF ModuleStep
  <2> QED  BY <2>1, <2>2, <2>3
<1> QED  BY <1>2, <1>3 DEF StuckOnlyWithoutKernelSupport
-----------------------------------------------------------------------------
(* Whose context a step changes.                                             *)

LEMMA ContextIs ==
  ASSUME TypeOK, OnOneCpu, NEW t \in Tasks
  PROVE  /\ \A c \in Cpus : running[c] = t => ContextOf(t) = hw[c]
         /\ ~OnCpu(t) => ContextOf(t) = saved[t]
<1>1. ASSUME NEW c \in Cpus, running[c] = t
      PROVE  CpuOf(t) = c
  BY <1>1 DEF CpuOf, OnOneCpu
<1> QED  BY <1>1 DEF ContextOf, OnCpu

LEMMA ContextWillBe ==
  ASSUME TypeOK', OnOneCpu', NEW t \in Tasks
  PROVE  /\ \A c \in Cpus : running'[c] = t => ContextOf(t)' = hw'[c]
         /\ ~OnCpu(t)' => ContextOf(t)' = saved'[t]
<1>1. ASSUME NEW c \in Cpus, running'[c] = t
      PROVE  CpuOf(t)' = c
  BY <1>1 DEF CpuOf, OnOneCpu
<1> QED  BY <1>1 DEF ContextOf, OnCpu

Consistent == TypeOK /\ OnOneCpu

(* A task that runs changes its own context.                                 *)
LEMMA RunningChanges ==
  ASSUME Consistent, Consistent', NEW c \in Cpus, running[c] \in Tasks,
         UNCHANGED <<running, saved>>, NEW x, hw' = [hw EXCEPT ![c] = x]
  PROVE  /\ ContextOf(running[c])' = x
         /\ \A u \in Tasks \ {running[c]} : ContextOf(u)' = ContextOf(u)
<1>1. ContextOf(running[c])' = x
  BY ContextWillBe DEF Consistent, TypeOK
<1>2. ASSUME NEW u \in Tasks \ {running[c]}
      PROVE  ContextOf(u)' = ContextOf(u)
  <2>1. CASE OnCpu(u)
    <3>1. PICK d \in Cpus : running[d] = u
      BY <2>1 DEF OnCpu
    <3> QED  BY <1>2, <3>1, ContextIs, ContextWillBe DEF Consistent, TypeOK
  <2>2. CASE ~OnCpu(u)
    BY <1>2, <2>2, ContextIs, ContextWillBe DEF Consistent, OnCpu
  <2> QED  BY <2>1, <2>2
<1> QED  BY <1>1, <1>2

(* A task that dies on its processor takes nobody's context along.           *)
LEMMA DyingChanges ==
  ASSUME Consistent, Consistent', NEW c \in Cpus, running[c] \in Tasks,
         UNCHANGED <<hw, saved>>, running' = [running EXCEPT ![c] = NoTask]
  PROVE  \A u \in Tasks \ {running[c]} : ContextOf(u)' = ContextOf(u)
<1> SUFFICES ASSUME NEW u \in Tasks \ {running[c]}
             PROVE  ContextOf(u)' = ContextOf(u)
  OBVIOUS
<1>1. CASE OnCpu(u)
  <2>1. PICK d \in Cpus : running[d] = u
    BY <1>1 DEF OnCpu
  <2>2. running'[d] = u
    BY <2>1 DEF Consistent, TypeOK
  <2> QED  BY <2>1, <2>2, ContextIs, ContextWillBe DEF Consistent
<1>2. CASE ~OnCpu(u)
  <2>1. ~OnCpu(u)'
    BY <1>2, TasksAssumption DEF OnCpu, Consistent, TypeOK
  <2> QED  BY <1>2, <2>1, ContextIs, ContextWillBe DEF Consistent
<1> QED  BY <1>1, <1>2

(* The scheduler moves contexts and changes none.                            *)
LEMMA SwitchChangesNothing ==
  ASSUME Consistent, Consistent', NEW c \in Cpus,
         SwitchOut(c) \/ \E t \in Tasks : SwitchIn(c, t)
  PROVE  \A u \in Tasks : ContextOf(u)' = ContextOf(u)
<1> SUFFICES ASSUME NEW u \in Tasks PROVE ContextOf(u)' = ContextOf(u)
  OBVIOUS
<1>1. CASE SwitchOut(c)
  <2>1. CASE u = running[c]
    <3>1. ~OnCpu(u)'
      BY <1>1, <2>1, TasksAssumption DEF OnCpu, SwitchOut, Consistent, OnOneCpu, TypeOK
    <3> QED  BY <1>1, <2>1, <3>1, ContextIs, ContextWillBe DEF Consistent, SwitchOut, TypeOK
  <2>2. CASE u # running[c] /\ OnCpu(u)
    <3>1. PICK d \in Cpus : running[d] = u
      BY <2>2 DEF OnCpu
    <3>2. running'[d] = u /\ hw'[d] = hw[d]
      BY <1>1, <2>2, <3>1 DEF SwitchOut, Consistent, TypeOK
    <3> QED  BY <3>1, <3>2, ContextIs, ContextWillBe DEF Consistent
  <2>3. CASE u # running[c] /\ ~OnCpu(u)
    <3>1. ~OnCpu(u)' /\ saved'[u] = saved[u]
      BY <1>1, <2>3, TasksAssumption DEF OnCpu, SwitchOut, Consistent, TypeOK
    <3> QED  BY <2>3, <3>1, ContextIs, ContextWillBe DEF Consistent
  <2> QED  BY <2>1, <2>2, <2>3
<1>2. ASSUME NEW t \in Tasks, SwitchIn(c, t)
      PROVE  ContextOf(u)' = ContextOf(u)
  <2>1. CASE u = t
    <3>1. running'[c] = u /\ hw'[c] = saved[u] /\ ~OnCpu(u)
      BY <1>2, <2>1 DEF SwitchIn, Consistent, TypeOK
    <3> QED  BY <3>1, ContextIs, ContextWillBe DEF Consistent
  <2>2. CASE u # t /\ OnCpu(u)
    <3>1. PICK d \in Cpus : running[d] = u
      BY <2>2 DEF OnCpu
    <3>2. running'[d] = u /\ hw'[d] = hw[d]
      BY <1>2, <2>2, <3>1, TasksAssumption DEF SwitchIn, Consistent, TypeOK
    <3> QED  BY <3>1, <3>2, ContextIs, ContextWillBe DEF Consistent
  <2>3. CASE u # t /\ ~OnCpu(u)
    <3>1. ~OnCpu(u)' /\ saved'[u] = saved[u]
      BY <1>2, <2>3, TasksAssumption DEF OnCpu, SwitchIn, Consistent, TypeOK
    <3> QED  BY <2>3, <3>1, ContextIs, ContextWillBe DEF Consistent
  <2> QED  BY <2>1, <2>2, <2>3
<1> QED  BY <1>1, <1>2

(* fork gives the new task what the task that runs has at that moment.        *)
LEMMA ForkChanges ==
  ASSUME Consistent, Consistent', NEW c \in Cpus, NEW t \in Tasks, Fork(c, t)
  PROVE  /\ ContextOf(t)' = ContextOf(running[c])
         /\ \A u \in Tasks \ {t} : ContextOf(u)' = ContextOf(u)
<1>1. ~OnCpu(t)
  BY DEF Fork, OnCpu, Consistent, OnOneCpu
<1>2. ContextOf(t)' = ContextOf(running[c])
  <2>1. ContextOf(running[c]) = hw[c]
    BY ContextIs DEF Fork, InUser, Consistent
  <2>2. ~OnCpu(t)' /\ saved'[t] = hw[c]
    BY <1>1 DEF Fork, OnCpu, Consistent, TypeOK
  <2> QED  BY <2>1, <2>2, ContextWillBe DEF Consistent
<1>3. ASSUME NEW u \in Tasks \ {t}
      PROVE  ContextOf(u)' = ContextOf(u)
  <2>1. saved'[u] = saved[u] /\ UNCHANGED <<hw, running>>
    BY <1>3 DEF Fork, Consistent, TypeOK
  <2> QED  BY <2>1, ContextIs, ContextWillBe DEF Consistent, ContextOf, OnCpu, CpuOf
<1> QED  BY <1>2, <1>3
-----------------------------------------------------------------------------
(* The contexts of the invariant.                                            *)

LEMMA OnlyEnabledKernelsStep ==
  ASSUME TypeOK, OnlyEnabledKernels, [Next]_vars
  PROVE  OnlyEnabledKernels'
<1> SUFFICES ASSUME platform'.xcr0 # MpxComponents
             PROVE  OnlyEnabledKernels'
  BY DEF OnlyEnabledKernels
<1>1. CASE UNCHANGED <<platform, hw, saved>>
  BY <1>1 DEF OnlyEnabledKernels
<1>2. ASSUME NEW c \in Cpus, ModuleStep(c)
      PROVE  OnlyEnabledKernels'
  <2>1. UNCHANGED platform
    BY <1>2 DEF ModuleStep, enable_init, enable_mpx, enable_cleanup, disable_mpx,
       Unsupported, RestoreNothing, RestoreCfg, Oops
  <2>2. ASSUME NEW next, RestoreNothing(c, next)
        PROVE  UNCHANGED <<platform, hw, saved>>
    <3>1. CASE Oops(c)
      BY <3>1 DEF Oops
    <3>2. CASE xrstor_state(c, MpxComponents, {}, {}) /\ UNCHANGED <<platform, saved>>
      BY <3>2, <2>1, RestoresNothing DEF TypeOK
    <3> QED  BY <2>2, <3>1, <3>2 DEF RestoreNothing
  <2>3. ASSUME NEW cfg, NEW after, RestoreCfg(c, cfg, after)
        PROVE  UNCHANGED <<platform, hw, saved>>
    BY <2>1, <2>3, MachineFacts DEF RestoreCfg, Oops
  <2> QED  BY <1>1, <1>2, <2>2, <2>3 DEF ModuleStep, enable_init, enable_mpx,
              enable_cleanup, disable_mpx, Unsupported
<1>3. ASSUME NEW c \in Cpus, KernelStep(c)
      PROVE  OnlyEnabledKernels'
  <2>1. CASE Insmod(c) \/ Rmmod(c) \/ Exit(c)
    BY <1>1, <2>1 DEF Insmod, Rmmod, Exit
  <2>2. CASE UseMpx(c)
    <3>1. \A r \in BndRegs, w \in Word : Bndmk(InitContext, r, w, 0) = InitContext
      BY DEF Bndmk, MpxOn, InitContext
    <3> QED  BY <2>2, <3>1 DEF UseMpx, OnlyEnabledKernels, TypeOK
  <2>3. CASE SwitchOut(c) \/ \E t \in Tasks : Fork(c, t) \/ SwitchIn(c, t)
    BY <2>3 DEF SwitchOut, Fork, SwitchIn, OnlyEnabledKernels, TypeOK, InUser
  <2> QED  BY <1>3, <2>1, <2>2, <2>3 DEF KernelStep
<1> QED  BY <1>1, <1>2, <1>3 DEF Next, vars

Between == {"enable_mpx", "disable_mpx"}

(* A step of a task that is not between the XRSTORs afterwards disturbs       *)
(* nobody who is.                                                            *)
LEMMA OthersBetween ==
  ASSUME BetweenRestores, UNCHANGED platform, NEW t,
         \A u \in Tasks \ {t} : pc'[u] \in Between =>
             pc'[u] = pc[u] /\ ContextOf(u)' = ContextOf(u),
         t \in Tasks => pc'[t] \notin Between
  PROVE  BetweenRestores'
  BY DEF BetweenRestores, Between, check_no_mpx_support

LEMMA BetweenRestoresModule ==
  ASSUME Consistent, Consistent', BetweenRestores, NEW c \in Cpus, ModuleStep(c)
  PROVE  BetweenRestores'
<1>1. running[c] \in Tasks
  BY DEF ModuleStep
<1>2. ASSUME NEW point, Goto(c, point)
      PROVE  /\ pc'[running[c]] = point
             /\ \A u \in Tasks \ {running[c]} : pc'[u] = pc[u]
  BY <1>1, <1>2 DEF Goto, Consistent, TypeOK
<1>3. CASE Oops(c)
  <2>1. \A u \in Tasks \ {running[c]} : ContextOf(u)' = ContextOf(u)
    BY <1>1, <1>3, DyingChanges DEF Oops
  <2> QED  BY <1>1, <1>2, <1>3, <2>1, OthersBetween DEF Oops, Between
<1>4. ASSUME NEW after, Unsupported(c, after)
      PROVE  BetweenRestores'
  <2>1. \A u \in Tasks : ContextOf(u)' = ContextOf(u)
    BY <1>4 DEF Unsupported, ContextOf, CpuOf, OnCpu
  <2> QED  BY <1>1, <1>2, <1>4, <2>1, OthersBetween DEF Unsupported, Between
<1>5. ASSUME NEW next, ~check_no_mpx_support(platform), RestoreNothing(c, next)
      PROVE  BetweenRestores'
  <2> SUFFICES ASSUME platform.osxsave, xrstor_state(c, MpxComponents, {}, {}), Goto(c, next),
                      UNCHANGED <<platform, module, running, saved>>
               PROVE  BetweenRestores'
    BY <1>3, <1>5, MachineFacts DEF RestoreNothing, Consistent
  <2>1. hw' = [hw EXCEPT ![c] = IF platform.xcr0 = MpxComponents THEN InitContext ELSE hw[c]]
    BY RestoresNothing DEF Consistent
  <2>2. /\ ContextOf(running[c])' = IF platform.xcr0 = MpxComponents THEN InitContext ELSE hw[c]
        /\ \A u \in Tasks \ {running[c]} : ContextOf(u)' = ContextOf(u)
    BY <1>1, <2>1, RunningChanges
  <2> QED  BY <1>2, <1>5, <2>2 DEF BetweenRestores, check_no_mpx_support
<1>6. ASSUME NEW cfg, NEW after, RestoreCfg(c, cfg, after)
      PROVE  BetweenRestores'
  <2> SUFFICES ASSUME xrstor_state(c, {"BNDCSR"}, {"BNDCSR"}, cfg), Goto(c, "user"),
                      platform.xcr0 = MpxComponents, UNCHANGED <<platform, running, saved>>
               PROVE  BetweenRestores'
    BY <1>3, <1>6, MachineFacts DEF RestoreCfg, Consistent
  <2>1. hw' = [hw EXCEPT ![c] = [bnd |-> hw[c].bnd, cfg |-> cfg]]
    BY RestoresCfg DEF Consistent
  <2>2. \A u \in Tasks \ {running[c]} : ContextOf(u)' = ContextOf(u)
    BY <1>1, <2>1, RunningChanges
  <2> QED  BY <1>1, <1>2, <2>2, OthersBetween DEF Between
<1> QED  BY <1>4, <1>5, <1>6 DEF ModuleStep, enable_init, enable_mpx, enable_cleanup,
            disable_mpx

LEMMA BetweenRestoresKernel ==
  ASSUME Consistent, Consistent', BetweenRestores, NEW c \in Cpus, KernelStep(c)
  PROVE  BetweenRestores'
<1>1. CASE Insmod(c) \/ Rmmod(c)
  <2>1. \A u \in Tasks : ContextOf(u)' = ContextOf(u)
    BY <1>1 DEF Insmod, Rmmod, ContextOf, CpuOf, OnCpu
  <2> QED  BY <1>1, <2>1, OthersBetween
           DEF Insmod, Rmmod, ByProgram, InUser, Goto, Consistent, TypeOK, Between
<1>2. CASE UseMpx(c)
  <2>1. PICK x : hw' = [hw EXCEPT ![c] = x]
    BY <1>2 DEF UseMpx
  <2>2. \A u \in Tasks \ {running[c]} : ContextOf(u)' = ContextOf(u)
    BY <1>2, <2>1, RunningChanges DEF UseMpx, InUser
  <2> QED  BY <1>2, <2>2, OthersBetween DEF UseMpx, InUser, Between
<1>3. CASE Exit(c)
  <2>1. \A u \in Tasks \ {running[c]} : ContextOf(u)' = ContextOf(u)
    BY <1>3, DyingChanges DEF Exit, ByProgram, InUser
  <2> QED  BY <1>3, <2>1, OthersBetween
           DEF Exit, ByProgram, InUser, Goto, Consistent, TypeOK, Between
<1>4. CASE SwitchOut(c) \/ \E t \in Tasks : SwitchIn(c, t)
  <2>1. \A u \in Tasks : ContextOf(u)' = ContextOf(u)
    BY <1>4, SwitchChangesNothing
  <2>2. UNCHANGED <<platform, pc>>
    BY <1>4 DEF SwitchOut, SwitchIn
  <2> QED  BY <2>1, <2>2, TasksAssumption, OthersBetween
<1>5. ASSUME NEW t \in Tasks, Fork(c, t)
      PROVE  BetweenRestores'
  <2>1. \A u \in Tasks \ {t} : ContextOf(u)' = ContextOf(u)
    BY <1>5, ForkChanges
  <2> QED  BY <1>5, <2>1, OthersBetween DEF Fork, Consistent, TypeOK, Between
<1> QED  BY <1>1, <1>2, <1>3, <1>4, <1>5 DEF KernelStep

LEMMA InvariantInit == Init => KmodInv
  BY TasksAssumption DEF Init, KmodInv, OnOneCpu, OneInModule, BetweenRestores,
     OnlyEnabledKernels, StuckOnlyWithoutKernelSupport, Stuck, ModulePoints

LEMMA InvariantStep == TypeOK /\ TypeOK' /\ KmodInv /\ [Next]_vars => KmodInv'
<1> SUFFICES ASSUME TypeOK, TypeOK', KmodInv, [Next]_vars
             PROVE  KmodInv'
  OBVIOUS
<1>1. OnOneCpu' /\ OneInModule' /\ StuckOnlyWithoutKernelSupport' /\ OnlyEnabledKernels'
  BY OnOneCpuStep, OneInModuleStep, StuckStep, OnlyEnabledKernelsStep DEF KmodInv
<1>2. CASE UNCHANGED vars
  <2>1. BetweenRestores'
    BY <1>2 DEF KmodInv, vars, BetweenRestores, ContextOf, OnCpu, CpuOf, check_no_mpx_support
  <2> QED  BY <1>1, <2>1 DEF KmodInv
<1>3. CASE Next
  <2>1. Consistent /\ Consistent' /\ BetweenRestores
    BY <1>1 DEF Consistent, KmodInv
  <2>2. BetweenRestores'
    BY <1>3, <2>1, BetweenRestoresModule, BetweenRestoresKernel DEF Next
  <2> QED  BY <1>1, <2>2 DEF KmodInv
<1> QED  BY <1>1, <1>2, <1>3 DEF KmodInv

(* The inductive invariant.                                                  *)
THEOREM Invariant == Spec => [](TypeOK /\ KmodInv)
  BY InitType, StepType, InvariantInit, InvariantStep, PTL DEF Spec

(* A fault leaves the module half loaded or unloaded only where CPUID passed   *)
(* the check and the kernel does not enable MPX.                             *)
THEOREM StuckOnlyThere == Spec => []StuckOnlyWithoutKernelSupport
<1>1. TypeOK /\ KmodInv => StuckOnlyWithoutKernelSupport
  BY DEF KmodInv
<1> QED  BY <1>1, Invariant, PTL
-----------------------------------------------------------------------------
(* The refinement: a task owns what its processor holds or the kernel saved.  *)

OwnStep == [PerTask!OwnNext]_(PerTask!ownVars)
UNSUPPORTED == check_no_mpx_support(platform)

(* The instance has its own copy of the operators of Mpx.                    *)
LEMMA SameMpx ==
  /\ PerTask!InitContext = InitContext
  /\ PerTask!CfgBits = CfgBits
  /\ PerTask!Word = Word
  /\ \A c, r, w : PerTask!Bndmk(c, r, w, 0) = Bndmk(c, r, w, 0)
  BY DEF PerTask!InitContext, InitContext, PerTask!InitBounds, InitBounds,
     PerTask!CfgBits, CfgBits, PerTask!MPX_ENABLE_BIT_NO, MPX_ENABLE_BIT_NO,
     PerTask!BNDPRESERVE_BIT_NO, BNDPRESERVE_BIT_NO, PerTask!Word, Word,
     PerTask!Bndmk, Bndmk, PerTask!MpxOn, MpxOn, PerTask!BNDMK, BNDMK,
     PerTask!Complement, Complement, PerTask!Plus, Plus

LEMMA OwnBecomes ==
  ASSUME TypeOK, TypeOK', NEW t \in Tasks, NEW x,
         \A u \in Tasks \ {t} : ContextOf(u)' = ContextOf(u) /\ pc'[u] = pc[u],
         IF pc'[t] = "unborn" THEN x = InitContext ELSE ContextOf(t)' = x
  PROVE  PerTask!Becomes(t, x)
  BY DEF Own, PerTask!Becomes

LEMMA OwnStays ==
  ASSUME TypeOK, TypeOK',
         \A u \in Tasks : /\ ContextOf(u)' = ContextOf(u)
                          /\ pc'[u] = "unborn" <=> pc[u] = "unborn"
  PROVE  UNCHANGED Own
  BY DEF Own

LEMMA GotoMaps ==
  ASSUME TypeOK, NEW c \in Cpus, running[c] \in Tasks, NEW point, Goto(c, point),
         UNCHANGED platform
  PROVE  /\ PerTask!Goto(running[c], point)
         /\ pc'[running[c]] = point
         /\ \A u \in Tasks \ {running[c]} : pc'[u] = pc[u]
  BY DEF Goto, PerTask!Goto, TypeOK, check_no_mpx_support

(* A fault in the module is the death of the task.                           *)
LEMMA OopsMaps ==
  ASSUME Consistent, Consistent', NEW c \in Cpus, running[c] \in Tasks, Oops(c)
  PROVE  PerTask!Gone(running[c])
<1>1. \A u \in Tasks \ {running[c]} : ContextOf(u)' = ContextOf(u)
  BY DyingChanges DEF Oops
<1> QED  BY <1>1, SameMpx, GotoMaps, OwnBecomes DEF Oops, PerTask!Gone, Consistent

LEMMA UnsupportedMaps ==
  ASSUME Consistent, Consistent', NEW c \in Cpus, running[c] \in Tasks,
         pc[running[c]] # "unborn", NEW after, Unsupported(c, after)
  PROVE  /\ PerTask!Goto(running[c], "user") /\ module' = after
         /\ UNCHANGED Own /\ UNSUPPORTED
<1>1. \A u \in Tasks : ContextOf(u)' = ContextOf(u)
  BY DEF Unsupported, ContextOf, CpuOf, OnCpu
<1> QED  BY <1>1, GotoMaps, OwnStays DEF Unsupported, Consistent, UNSUPPORTED

(* The first XRSTOR gives the task a clean context, or kills it.              *)
LEMMA RestoreNothingMaps ==
  ASSUME Consistent, Consistent', OnlyEnabledKernels, NEW c \in Cpus, running[c] \in Tasks,
         NEW next \in ModulePoints, RestoreNothing(c, next)
  PROVE  \/ /\ PerTask!Goto(running[c], next)
            /\ PerTask!Becomes(running[c], InitContext) /\ UNCHANGED module
         \/ platform.xcr0 # MpxComponents /\ PerTask!Gone(running[c])
<1>1. CASE XrstorFaults(platform, {}) /\ Oops(c)
  BY <1>1, OopsMaps, MachineFacts DEF Consistent, MpxComponents
<1>2. CASE xrstor_state(c, MpxComponents, {}, {}) /\ Goto(c, next)
           /\ UNCHANGED <<platform, module, running, saved>>
  <2>1. hw' = [hw EXCEPT ![c] = IF platform.xcr0 = MpxComponents THEN InitContext ELSE hw[c]]
    BY <1>2, RestoresNothing DEF Consistent
  <2>2. platform.xcr0 # MpxComponents => hw[c] = InitContext
    BY DEF OnlyEnabledKernels
  <2>3. /\ ContextOf(running[c])' = InitContext
        /\ \A u \in Tasks \ {running[c]} : ContextOf(u)' = ContextOf(u)
    BY <1>2, <2>1, <2>2, RunningChanges
  <2> QED  BY <1>2, <2>3, SameMpx, GotoMaps, OwnBecomes DEF Consistent, ModulePoints
<1> QED  BY <1>1, <1>2 DEF RestoreNothing

(* The second gives it the configuration on top, or kills it.                 *)
LEMMA RestoreCfgMaps ==
  ASSUME Consistent, Consistent', BetweenRestores, NEW c \in Cpus, running[c] \in Tasks,
         pc[running[c]] \in Between,
         NEW cfg, NEW after, RestoreCfg(c, cfg, after)
  PROVE  \/ /\ PerTask!Goto(running[c], "user") /\ module' = after
            /\ PerTask!Becomes(running[c], [bnd |-> InitContext.bnd, cfg |-> cfg])
         \/ platform.xcr0 # MpxComponents /\ PerTask!Gone(running[c])
<1>1. CASE XrstorFaults(platform, {"BNDCSR"}) /\ Oops(c)
  BY <1>1, OopsMaps, MachineFacts DEF Consistent
<1>2. CASE /\ ~XrstorFaults(platform, {"BNDCSR"})
           /\ xrstor_state(c, {"BNDCSR"}, {"BNDCSR"}, cfg)
           /\ Goto(c, "user") /\ module' = after
           /\ UNCHANGED <<platform, running, saved>>
  <2>1. platform.xcr0 = MpxComponents
    BY <1>2, MachineFacts DEF Consistent
  <2>2. hw[c] = InitContext
    BY <2>1, ContextIs DEF BetweenRestores, Between, Consistent
  <2>3. hw' = [hw EXCEPT ![c] = [bnd |-> InitContext.bnd, cfg |-> cfg]]
    BY <1>2, <2>1, <2>2, RestoresCfg DEF Consistent
  <2>4. /\ ContextOf(running[c])' = [bnd |-> InitContext.bnd, cfg |-> cfg]
        /\ \A u \in Tasks \ {running[c]} : ContextOf(u)' = ContextOf(u)
    BY <1>2, <2>3, RunningChanges
  <2> QED  BY <1>2, <2>4, GotoMaps, OwnBecomes DEF Consistent
<1> QED  BY <1>1, <1>2 DEF RestoreCfg

LEMMA ModuleStepMaps ==
  ASSUME Consistent, Consistent', KmodInv, NEW c \in Cpus, ModuleStep(c)
  PROVE  OwnStep
<1>1. running[c] \in Tasks /\ BetweenRestores /\ OnlyEnabledKernels
  BY DEF ModuleStep, KmodInv
<1>2. PerTask!Enabled = [bnd |-> InitContext.bnd, cfg |-> CfgBits]
  BY SameMpx DEF PerTask!Enabled, InitContext
<1>3. InitContext = [bnd |-> InitContext.bnd, cfg |-> {}]
  BY DEF InitContext
<1>4. pc[running[c]] \in Between => ~UNSUPPORTED
  BY <1>1 DEF BetweenRestores, Between, UNSUPPORTED
<1>5. CASE enable_init(c)
  <2>1. PerTask!Run(running[c], "enable_init", "enable_mpx", "live", PerTask!Enabled)
    BY <1>1, <1>5, SameMpx, UnsupportedMaps, RestoreNothingMaps
    DEF enable_init, AfterInit, UNSUPPORTED, PerTask!Run, ModulePoints
  <2> QED  BY <1>1, <2>1 DEF OwnStep, PerTask!OwnNext
<1>6. CASE enable_mpx(c)
  <2>1. PerTask!Run(running[c], "enable_init", "enable_mpx", "live", PerTask!Enabled)
    BY <1>1, <1>2, <1>4, <1>6, RestoreCfgMaps, CfgRegU
    DEF enable_mpx, AfterInit, UNSUPPORTED, PerTask!Run, Between
  <2> QED  BY <1>1, <2>1 DEF OwnStep, PerTask!OwnNext
<1>7. CASE enable_cleanup(c)
  <2>1. PerTask!Run(running[c], "enable_cleanup", "disable_mpx", "absent", PerTask!InitContext)
    BY <1>1, <1>7, SameMpx, UnsupportedMaps, RestoreNothingMaps
    DEF enable_cleanup, UNSUPPORTED, PerTask!Run, ModulePoints
  <2> QED  BY <1>1, <2>1 DEF OwnStep, PerTask!OwnNext
<1>8. CASE disable_mpx(c)
  <2>1. PerTask!Run(running[c], "enable_cleanup", "disable_mpx", "absent", PerTask!InitContext)
    BY <1>1, <1>3, <1>4, <1>8, SameMpx, RestoreCfgMaps
    DEF disable_mpx, UNSUPPORTED, PerTask!Run, Between
  <2> QED  BY <1>1, <2>1 DEF OwnStep, PerTask!OwnNext
<1> QED  BY <1>5, <1>6, <1>7, <1>8 DEF ModuleStep

LEMMA KernelStepMaps ==
  ASSUME Consistent, Consistent', KmodInv, NEW c \in Cpus, KernelStep(c)
  PROVE  OwnStep
<1>1. CASE Insmod(c)
  <2>1. \A u \in Tasks : ContextOf(u)' = ContextOf(u)
    BY <1>1 DEF Insmod, ContextOf, CpuOf, OnCpu
  <2>2. PerTask!Begin(running[c], "absent", "coming", "enable_init")
    BY <1>1, <2>1, GotoMaps, OwnStays
    DEF Insmod, ByProgram, InUser, PerTask!Begin, Consistent
  <2> QED  BY <1>1, <2>2 DEF OwnStep, PerTask!OwnNext, Insmod, ByProgram, InUser
<1>2. CASE Rmmod(c)
  <2>1. \A u \in Tasks : ContextOf(u)' = ContextOf(u)
    BY <1>2 DEF Rmmod, ContextOf, CpuOf, OnCpu
  <2>2. PerTask!Begin(running[c], "live", "going", "enable_cleanup")
    BY <1>2, <2>1, GotoMaps, OwnStays
    DEF Rmmod, ByProgram, InUser, PerTask!Begin, Consistent
  <2> QED  BY <1>2, <2>2 DEF OwnStep, PerTask!OwnNext, Rmmod, ByProgram, InUser
<1>3. CASE UseMpx(c)
  <2>1. running[c] \in Tasks /\ pc[running[c]] = "user"
    BY <1>3 DEF UseMpx, InUser
  <2>2. Own[running[c]] = hw[c]
    BY <2>1, ContextIs DEF Own, Consistent
  <2>3. ASSUME NEW x, hw' = [hw EXCEPT ![c] = x]
        PROVE  PerTask!Becomes(running[c], x)
    <3>1. /\ ContextOf(running[c])' = x
          /\ \A u \in Tasks \ {running[c]} : ContextOf(u)' = ContextOf(u)
      BY <1>3, <2>1, <2>3, RunningChanges DEF UseMpx
    <3> QED  BY <1>3, <2>1, <3>1, OwnBecomes DEF UseMpx, Consistent
  <2>4. PerTask!UserStep(running[c])
    BY <1>3, <2>1, <2>2, <2>3, SameMpx
    DEF UseMpx, PerTask!UserStep, PerTask!Enabled, check_no_mpx_support
  <2> QED  BY <2>1, <2>4 DEF OwnStep, PerTask!OwnNext
<1>4. CASE Exit(c)
  <2>1. \A u \in Tasks \ {running[c]} : ContextOf(u)' = ContextOf(u)
    BY <1>4, DyingChanges DEF Exit, ByProgram, InUser
  <2>2. PerTask!Leave(running[c])
    BY <1>4, <2>1, SameMpx, GotoMaps, OwnBecomes
    DEF Exit, ByProgram, InUser, PerTask!Leave, PerTask!Gone, Consistent
  <2> QED  BY <1>4, <2>2 DEF OwnStep, PerTask!OwnNext, Exit, ByProgram, InUser
<1>5. CASE SwitchOut(c) \/ \E t \in Tasks : SwitchIn(c, t)
  <2>1. \A u \in Tasks : ContextOf(u)' = ContextOf(u)
    BY <1>5, SwitchChangesNothing
  <2>2. UNCHANGED <<platform, module, pc>>
    BY <1>5 DEF SwitchOut, SwitchIn
  <2>3. UNCHANGED Own
    BY <2>1, <2>2, OwnStays DEF Consistent
  <2> QED  BY <2>2, <2>3 DEF OwnStep, PerTask!ownVars, check_no_mpx_support
<1>6. ASSUME NEW t \in Tasks, Fork(c, t)
      PROVE  OwnStep
  <2>1. /\ ContextOf(t)' = ContextOf(running[c])
        /\ \A u \in Tasks \ {t} : ContextOf(u)' = ContextOf(u)
    BY <1>6, ForkChanges
  <2>2. /\ running[c] \in Tasks /\ pc[running[c]] = "user"
        /\ pc'[t] = "user" /\ \A u \in Tasks \ {t} : pc'[u] = pc[u]
    BY <1>6 DEF Fork, InUser, Consistent, TypeOK
  <2>3. Own[running[c]] = ContextOf(running[c])
    BY <2>2 DEF Own
  <2>4. PerTask!Becomes(t, Own[running[c]])
    BY <2>1, <2>2, <2>3, OwnBecomes DEF Consistent
  <2>5. PerTask!Clone(running[c], t)
    BY <1>6, <2>4 DEF Fork, InUser, PerTask!Clone, PerTask!Goto, check_no_mpx_support
  <2> QED  BY <2>2, <2>5 DEF OwnStep, PerTask!OwnNext
<1> QED  BY <1>1, <1>2, <1>3, <1>4, <1>5, <1>6 DEF KernelStep

LEMMA InitMaps == Init => PerTask!OwnInit
<1> SUFFICES ASSUME Init PROVE PerTask!OwnInit
  OBVIOUS
<1>1. \A t \in Tasks : ContextOf(t) = InitContext
  BY TasksAssumption DEF Init, ContextOf, OnCpu
<1>2. Own = [t \in Tasks |-> InitContext]
  BY <1>1 DEF Own
<1> QED  BY <1>2, SameMpx DEF Init, PerTask!OwnInit, check_no_mpx_support

(* With any number of processors and tasks, each XRSTOR of the module changes  *)
(* the context of the task that loads or unloads it, and of no other.         *)
THEOREM Refinement == Spec => ImplementsTaskContexts
<1>1. ASSUME TypeOK, KmodInv, TypeOK', KmodInv', [Next]_vars
      PROVE  OwnStep
  <2>1. Consistent /\ Consistent'
    BY <1>1 DEF Consistent, KmodInv
  <2>2. CASE UNCHANGED vars
    <3>1. \A u \in Tasks : ContextOf(u)' = ContextOf(u)
      BY <2>2 DEF vars, ContextOf, CpuOf, OnCpu
    <3>2. UNCHANGED Own
      BY <2>2, <3>1, OwnStays, <1>1 DEF vars
    <3> QED  BY <2>2, <3>2 DEF OwnStep, PerTask!ownVars, vars, check_no_mpx_support
  <2> QED  BY <1>1, <2>1, <2>2, ModuleStepMaps, KernelStepMaps DEF Next
<1> QED  BY <1>1, InitMaps, Invariant, PTL DEF Spec, OwnStep, ImplementsTaskContexts,
            PerTask!OwnSpec
=============================================================================
