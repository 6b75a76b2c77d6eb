----------------------- MODULE SimplexProcess_proofs -----------------------
(***************************************************************************)
(* Theorems about SimplexProcess for any number of threads and bounds      *)
(* registers, any word size, any machine and any client.                   *)
(***************************************************************************)
EXTENDS SimplexProcess, TLAPS

USE DEF Depths

-----------------------------------------------------------------------------
(* What the operators the model is built from return.                        *)

LEMMA ZeroInWord == 0 \in Word /\ 1 \in Word
  BY MAssumption DEF Word

LEMMA ComplementInWord ==
  ASSUME NEW a \in Word
  PROVE  Complement(a) \in Word /\ Complement(Complement(a)) = a
  BY MAssumption DEF Word, Complement

LEMMA PlusInWord ==
  ASSUME NEW a \in Int, NEW b \in Int
  PROVE  Plus(a, b) \in Word
  BY MAssumption DEF Word, Plus

LEMMA MinusInWord ==
  ASSUME NEW a \in Int, NEW b \in Int
  PROVE  Minus(a, b) \in Word
  BY MAssumption DEF Word, Minus

LEMMA WordIsInt == Word \subseteq Int
  BY DEF Word

(* Adding back what was subtracted gives the minuend, whatever wrapped: a     *)
(* bndmk with the adjusted index sets the upper bound that was asked for.     *)
LEMMA PlusMinus ==
  ASSUME NEW a \in Word, NEW b \in Word
  PROVE  Plus(b, Minus(a, b)) = a
<1>1. M \in Nat /\ M >= 1 /\ a \in 0 .. M-1 /\ b \in 0 .. M-1
  BY MAssumption DEF Word
<1>2. CASE a >= b
  BY <1>1, <1>2 DEF Plus, Minus
<1>3. CASE a < b
  <2>1. (a - b) % M = a - b + M
    BY <1>1, <1>3
  <2>2. (b + (a - b + M)) % M = a
    BY <1>1, <1>3
  <2> QED  BY <2>1, <2>2 DEF Plus, Minus
<1> QED  BY <1>1, <1>2, <1>3

LEMMA BNDMKType ==
  ASSUME NEW a \in Word, NEW b \in Word
  PROVE  BNDMK(a, b) \in Bounds
  BY PlusInWord, ComplementInWord, WordIsInt DEF BNDMK, Bounds

LEMMA InitContextType == InitContext \in Context
  BY ZeroInWord DEF InitContext, InitBounds, Context, Bounds

LEMMA NearBranchType ==
  ASSUME NEW c \in Context
  PROVE  NearBranch(c) \in Context
  BY InitContextType DEF NearBranch, Context

LEMMA BndmkType ==
  ASSUME NEW c \in Context, NEW r \in BndRegs, NEW a \in Word, NEW b \in Word
  PROVE  Bndmk(c, r, a, b) \in Context
  BY BNDMKType DEF Bndmk, Context

LEMMA XrstorType ==
  ASSUME NEW p, NEW c \in Context, NEW mask, NEW bv, NEW image \in Context
  PROVE  Xrstor(p, c, mask, bv, image) \in Context
  BY InitContextType DEF Xrstor, Context

LEMMA ZeroType == Zero \in Wide
  BY ZeroInWord DEF Zero, Wide

LEMMA BlankType == Blank \in Slot
  BY ZeroInWord DEF Blank, Slot, Spillers

LEMMA JunkSlotsType == JunkSlots \subseteq Slot
  BY JunkAssumption DEF JunkSlots, Slot, Spillers

LEMMA SlotOfType ==
  ASSUME NEW b \in Bounds, NEW fn \in Spillers
  PROVE  SlotOf(b, fn) \in Slot
  BY DEF SlotOf, Bounds, Slot

LEMMA WideType ==
  ASSUME NEW a \in Word, NEW b \in Word
  PROVE  /\ [lo |-> a, hi |-> b] \in Wide
         /\ Widen(a) \in Wide
         /\ [ShiftUp64(Not128(Widen(a))) EXCEPT !.lo = b] = [lo |-> b, hi |-> Complement(a)]
         /\ \A w \in Wide : ShiftDown64(XorLOWER(w)).lo = w.hi
  BY ZeroInWord DEF Wide, Widen, ShiftUp64, Not128, ShiftDown64, XorLOWER

LEMMA RequestsType == Requests \subseteq Call
<1>1. \A v \in Word : [lo |-> v, hi |-> 0] \in Wide
  BY WideType, ZeroInWord
<1> QED  BY <1>1, ZeroType, CallsAssumption
            DEF Requests, Call, NoCall, Functions, Mutators, Accessors

-----------------------------------------------------------------------------
(* Type correctness.                                                         *)

LEMMA OverlayType ==
  ASSUME TypeOK, NEW t \in Threads, NEW S, S \subseteq Slot, Overlay(t, S)
  PROVE  slot' \in [Threads -> [Depths -> Slot]]
  BY DEF TypeOK, Overlay

LEMMA SpillType ==
  ASSUME TypeOK, NEW t \in Threads, NEW s \in Slot, Spill(t, s)
  PROVE  slot' \in [Threads -> [Depths -> Slot]]
  BY DEF TypeOK, Spill, Depth

LEMMA BndmovType ==
  ASSUME TypeOK, NEW t \in Threads, NEW fn \in Spillers, Reg(t) \in BndRegs
  PROVE  Bndmov(t, fn) \in Slot
<1>1. ctx[t].bnd[Reg(t)] \in Bounds
  BY DEF TypeOK, Context
<1>2. slot[t][Depth(t)] \in Slot
  BY DEF TypeOK, Depth
<1> QED  BY <1>1, <1>2, SlotOfType DEF Bndmov

LEMMA ReturnType ==
  ASSUME TypeOK, NEW t \in Threads, NEW v \in Wide, NEW c \in Context,
         Return(t, v, c), slot' \in [Threads -> [Depths -> Slot]]
  PROVE  TypeOK'
<1>1. NearBranch(c) \in Context
  BY NearBranchType
<1>2. ReturnPoint[link[t]] \in Functions \cup InnerPoints \cup {"unborn", "idle"}
  BY DEF TypeOK, ReturnPoint, InnerPoints
<1> QED  BY <1>1, <1>2 DEF TypeOK, Return

LEMMA InvalidRegisterType ==
  ASSUME TypeOK, NEW t \in Threads, InvalidRegister(t)
  PROVE  TypeOK'
<1> DEFINE S == JunkSlots \cup
                (IF MpxOn(ctx[t])
                 THEN {SlotOf(ctx[t].bnd[r], "default") : r \in BndRegs} ELSE {})
<1>1. S \subseteq Slot
  <2>1. \A r \in BndRegs : ctx[t].bnd[r] \in Bounds
    BY DEF TypeOK, Context
  <2> QED  BY <2>1, JunkSlotsType, SlotOfType DEF Spillers
<1>2. Overlay(t, S) /\ Return(t, Zero, ctx[t])
  BY DEF InvalidRegister
<1>3. slot' \in [Threads -> [Depths -> Slot]]
  <2> HIDE DEF S
  <2> QED  BY <1>1, <1>2, OverlayType
<1> QED  BY <1>2, <1>3, ReturnType, ZeroType DEF TypeOK

LEMMA LoadAndSanitizeType ==
  ASSUME TypeOK, NEW t \in Threads, NEW s \in Slot, Spill(t, s),
         NEW v \in Wide, LoadAndSanitize(t, v)
  PROVE  TypeOK'
  BY SpillType DEF TypeOK, LoadAndSanitize, InnerPoints

LEMMA AccessorType ==
  ASSUME TypeOK, NEW t \in Threads,
         getbndl(t) \/ getbndu(t) \/ getbnd(t) \/ qgetbndl(t)
  PROVE  TypeOK'
<1>1. CASE InvalidRegister(t)
  BY <1>1, InvalidRegisterType
<1> SUFFICES ASSUME ~InvalidRegister(t)
             PROVE  TypeOK'
  BY <1>1
<1>2. CASE getbndl(t)
  <2> DEFINE s == Bndmov(t, "getbndl")
  <2>1. Reg(t) \in BndRegs /\ Spill(t, s) /\ LoadAndSanitize(t, Widen(s.lb))
    BY <1>2 DEF getbndl
  <2>2. s \in Slot
    BY <2>1, BndmovType DEF Spillers, Accessors
  <2>3. Widen(s.lb) \in Wide
    BY <2>2, WideType DEF Slot
  <2> QED  BY <2>1, <2>2, <2>3, LoadAndSanitizeType
<1>3. CASE getbndu(t)
  <2> DEFINE s == Bndmov(t, "getbndu")
  <2>1. Reg(t) \in BndRegs /\ Spill(t, s) /\ LoadAndSanitize(t, Widen(Complement(s.ub)))
    BY <1>3 DEF getbndu
  <2>2. s \in Slot
    BY <2>1, BndmovType DEF Spillers, Accessors
  <2>3. Widen(Complement(s.ub)) \in Wide
    BY <2>2, WideType, ComplementInWord DEF Slot
  <2> QED  BY <2>1, <2>2, <2>3, LoadAndSanitizeType
<1>4. CASE getbnd(t)
  <2> DEFINE s == Bndmov(t, "getbnd")
             v == [ShiftUp64(Not128(Widen(s.ub))) EXCEPT !.lo = s.lb]
  <2>1. Reg(t) \in BndRegs /\ Spill(t, s) /\ LoadAndSanitize(t, v)
    BY <1>4 DEF getbnd
  <2>2. s \in Slot
    BY <2>1, BndmovType DEF Spillers, Accessors
  <2>3. v \in Wide
    <3>1. s.lb \in Word /\ s.ub \in Word
      BY <2>2 DEF Slot
    <3> HIDE DEF s
    <3>2. v = [lo |-> s.lb, hi |-> Complement(s.ub)]
      BY <3>1, WideType
    <3> QED  BY <3>1, <3>2, ComplementInWord DEF Wide
  <2> QED  BY <2>1, <2>2, <2>3, LoadAndSanitizeType
<1>5. CASE qgetbndl(t)
  <2> DEFINE s == Bndmov(t, "qgetbndl")
  <2>1. Reg(t) \in BndRegs /\ Spill(t, s) /\ Return(t, Widen(s.lb), ctx[t])
    BY <1>5 DEF qgetbndl
  <2>2. s \in Slot
    BY <2>1, BndmovType DEF Spillers, Accessors
  <2>3. Widen(s.lb) \in Wide
    BY <2>2, WideType DEF Slot
  <2>4. slot' \in [Threads -> [Depths -> Slot]]
    BY <2>1, <2>2, SpillType
  <2> QED  BY <2>1, <2>3, <2>4, ReturnType DEF TypeOK
<1> QED  BY <1>2, <1>3, <1>4, <1>5

LEMMA SanitizeType ==
  ASSUME TypeOK, NEW t \in Threads, sanitize(t)
  PROVE  TypeOK'
<1>1. slot' \in [Threads -> [Depths -> Slot]]
  BY SpillType, BlankType DEF sanitize
<1> QED  BY <1>1, ReturnType DEF sanitize, TypeOK

LEMMA CallAccessorType ==
  ASSUME TypeOK, NEW t \in Threads, setbndl(t) \/ setbndu(t)
  PROVE  TypeOK'
<1>1. NearBranch(ctx[t]) \in Context
  BY NearBranchType DEF TypeOK
<1> QED  BY <1>1 DEF TypeOK, setbndl, setbndu, CallAccessor, Functions, Accessors

LEMMA BndmkOrComplainType ==
  ASSUME TypeOK, NEW t \in Threads, NEW a \in Word, NEW b \in Word,
         BndmkOrComplain(t, a, b)
  PROVE  TypeOK'
<1>1. ctx[t] \in Context
  BY DEF TypeOK
<1>2. CASE Reg(t) \in BndRegs
  <2>1. Return(t, Zero, Bndmk(ctx[t], Reg(t), a, b)) /\ slot' = slot
    BY <1>2 DEF BndmkOrComplain
  <2>2. Bndmk(ctx[t], Reg(t), a, b) \in Context
    BY <1>1, <1>2, BndmkType
  <2> QED  BY <2>1, <2>2, ZeroType, ReturnType DEF TypeOK
<1>3. CASE Reg(t) \notin BndRegs
  <2>1. Return(t, Zero, ctx[t]) /\ Overlay(t, JunkSlots)
    BY <1>3 DEF BndmkOrComplain
  <2>2. slot' \in [Threads -> [Depths -> Slot]]
    BY <2>1, OverlayType, JunkSlotsType
  <2> QED  BY <1>1, <2>1, <2>2, ZeroType, ReturnType
<1> QED  BY <1>2, <1>3

LEMMA MutatorType ==
  ASSUME TypeOK, NEW t \in Threads,
         setbndl_bndmk(t) \/ setbndu_bndmk(t) \/ setbnd(t) \/ qsetbndl(t)
  PROVE  TypeOK'
<1>1. Val(t).lo \in Word /\ Val(t).hi \in Word /\ out[t].lo \in Word
  BY DEF TypeOK, Call, Wide, Val
<1>2. \A a, b \in Word : Minus(a, b) \in Word
  BY MinusInWord, WordIsInt
<1>3. ShiftDown64(XorLOWER(Val(t))).lo = Val(t).hi
  BY DEF ShiftDown64, XorLOWER
<1>4. CASE setbndl_bndmk(t)
  BY <1>1, <1>2, <1>4, BndmkOrComplainType DEF setbndl_bndmk
<1>5. CASE setbndu_bndmk(t)
  BY <1>1, <1>2, <1>5, BndmkOrComplainType DEF setbndu_bndmk
<1>6. CASE setbnd(t)
  BY <1>1, <1>2, <1>3, <1>6, BndmkOrComplainType DEF setbnd
<1>7. CASE qsetbndl(t)
  BY <1>1, <1>7, ZeroInWord, BndmkOrComplainType DEF qsetbndl
<1> QED  BY <1>4, <1>5, <1>6, <1>7

LEMMA SimplexStepType ==
  ASSUME TypeOK, NEW t \in Threads, SimplexStep(t)
  PROVE  TypeOK'
  BY AccessorType, SanitizeType, CallAccessorType, MutatorType DEF SimplexStep

LEMMA XrstorStateType ==
  ASSUME TypeOK, NEW t \in Threads, NEW mask, NEW bv, NEW cfg \in SUBSET CfgBits
  PROVE  xrstor_state(t, mask, bv, cfg) \in Context
<1>1. [bnd |-> InitContext.bnd, cfg |-> cfg] \in Context
  BY InitContextType DEF Context
<1> QED  BY <1>1, XrstorType DEF xrstor_state, TypeOK

LEMMA RestoreNothingType ==
  ASSUME TypeOK, NEW t \in Threads, NEW next \in InnerPoints,
         RestoreNothing(t, next)
  PROVE  TypeOK'
<1>1. CASE Fault
  BY <1>1 DEF Fault, TypeOK
<1>2. CASE ~Fault
  <2>1. Overlay(t, {Blank})
    BY <1>2 DEF RestoreNothing
  <2>2. slot' \in [Threads -> [Depths -> Slot]]
    BY <2>1, OverlayType, BlankType
  <2>3. xrstor_state(t, MpxComponents, {}, {}) \in Context
    BY XrstorStateType
  <2> QED  BY <1>2, <2>2, <2>3 DEF RestoreNothing, TypeOK
<1> QED  BY <1>1, <1>2

LEMMA ReturnBoolType ==
  ASSUME TypeOK, NEW t \in Threads, NEW b \in BOOLEAN, NEW c \in Context,
         ReturnBool(t, b, c), slot' = slot
  PROVE  TypeOK'
<1>1. [lo |-> IF b THEN 1 ELSE 0, hi |-> 0] \in Wide
  BY ZeroInWord DEF Wide
<1> QED  BY <1>1, ReturnType DEF ReturnBool, TypeOK

LEMMA RestoreCfgType ==
  ASSUME TypeOK, NEW t \in Threads, NEW cfg \in SUBSET CfgBits, RestoreCfg(t, cfg)
  PROVE  TypeOK'
<1>1. CASE Fault
  BY <1>1 DEF Fault, TypeOK
<1>2. CASE ~Fault
  BY <1>2, XrstorStateType, ReturnBoolType DEF RestoreCfg
<1> QED  BY <1>1, <1>2

LEMMA CfgRegType == cfg_reg_u = CfgBits /\ cfg_reg_u \in SUBSET CfgBits
  BY DEF cfg_reg_u, Bit, enable, bndpreserve, CfgBits

LEMMA MpxrtStepType ==
  ASSUME TypeOK, NEW t \in Threads, MpxrtStep(t)
  PROVE  TypeOK'
<1>1. CASE Unsupported(t)
  BY <1>1, ReturnBoolType DEF Unsupported, TypeOK
<1>2. CASE RestoreNothing(t, "enable_mpx") \/ RestoreNothing(t, "disable_mpx")
  BY <1>2, RestoreNothingType DEF InnerPoints
<1>3. CASE RestoreCfg(t, cfg_reg_u) \/ RestoreCfg(t, {})
  BY <1>3, CfgRegType, RestoreCfgType
<1> QED  BY <1>1, <1>2, <1>3 DEF MpxrtStep, process_specific_init, enable_mpx,
            process_specific_finish, disable_mpx

LEMMA ClientStepType ==
  ASSUME TypeOK, NEW t \in Threads, ClientStep(t)
  PROVE  TypeOK'
<1>1. ctx[t] \in Context /\ NearBranch(ctx[t]) \in Context
  BY NearBranchType DEF TypeOK
<1>2. CASE Invoke(t)
  <2>1. \A q \in Requests : q \in Call /\ q.fn \in Functions
    BY RequestsType DEF Requests, NoCall, Functions, Mutators
  <2> QED  BY <1>1, <1>2, <2>1, ZeroType DEF Invoke, TypeOK
<1>3. CASE UseStack(t)
  BY <1>3, OverlayType, JunkSlotsType DEF UseStack, TypeOK
<1>4. ASSUME NEW u \in Threads, Spawn(t, u)
      PROVE  TypeOK'
  BY <1>1, <1>4 DEF Spawn, TypeOK
<1> QED  BY <1>2, <1>3, <1>4 DEF ClientStep

LEMMA InitType == Init => TypeOK
  BY InitContextType, ZeroType, BlankType DEF Init, TypeOK, NoCall, Call

(* Every variable keeps its type: in particular no bounds register and no     *)
(* return register ever holds a value outside a machine word.                *)
THEOREM TypeCorrect == Spec => []TypeOK
<1>1. ASSUME TypeOK, [Next]_vars
      PROVE  TypeOK'
  <2>1. CASE UNCHANGED vars
    BY <1>1, <2>1 DEF vars, TypeOK
  <2>2. ASSUME NEW t \in Threads, LibraryStep(t)
        PROVE  TypeOK'
    BY <1>1, <2>2, SimplexStepType, MpxrtStepType DEF LibraryStep
  <2>3. ASSUME NEW t \in Threads, ClientStep(t)
        PROVE  TypeOK'
    BY <1>1, <2>3, ClientStepType
  <2> QED  BY <1>1, <2>1, <2>2, <2>3 DEF Next
<1> QED  BY <1>1, InitType, PTL DEF Spec

-----------------------------------------------------------------------------
(* The inductive invariant.                                                  *)

LEMMA OffInitContext == MpxOn(InitContext) = FALSE
  BY DEF MpxOn, InitContext

LEMMA NearBranchKeeps ==
  ASSUME NEW c, c = InitContext \/ c.cfg = CfgBits
  PROVE  NearBranch(c) = c
  BY OffInitContext DEF NearBranch, CfgBits

(* What a thread's part of the invariant says depends on that thread alone.   *)
LEMMA Unmoved ==
  ASSUME NEW u \in Threads, ThreadInv(u), platform' = platform,
         pc'[u] = pc[u], ctx'[u] = ctx[u], slot'[u] = slot[u],
         call'[u] = call[u], link'[u] = link[u], out'[u] = out[u]
  PROVE  ThreadInv(u)'
<1>1. InControl(u)'
  BY DEF ThreadInv, InControl, Reg
<1>2. InContext(u)' /\ BetweenRestores(u)'
  BY DEF ThreadInv, InContext, BetweenRestores
<1>3. InReturn(u)'
  BY DEF ThreadInv, InReturn, Reg
<1>4. InSlots(u)'
  BY DEF ThreadInv, InSlots, Depth
<1>5. InAnswer(u)'
  BY DEF ThreadInv, InAnswer
<1> QED  BY <1>1, <1>2, <1>3, <1>4, <1>5 DEF ThreadInv

LEMMA OthersInLibrary ==
  ASSUME TypeOK, NEW t \in Threads, LibraryStep(t), NEW u \in Threads, u # t
  PROVE  /\ platform' = platform
         /\ pc'[u] = pc[u] /\ ctx'[u] = ctx[u] /\ slot'[u] = slot[u]
         /\ call'[u] = call[u] /\ link'[u] = link[u] /\ out'[u] = out[u]
<1> USE DEF TypeOK
<1>1. ASSUME NEW v, NEW c, Return(t, v, c)
      PROVE  /\ platform' = platform /\ call' = call
             /\ pc'[u] = pc[u] /\ ctx'[u] = ctx[u]
             /\ link'[u] = link[u] /\ out'[u] = out[u]
  BY <1>1 DEF Return
<1>2. ASSUME NEW v, LoadAndSanitize(t, v)
      PROVE  /\ platform' = platform /\ call' = call /\ ctx' = ctx /\ link' = link
             /\ pc'[u] = pc[u] /\ out'[u] = out[u]
  BY <1>2 DEF LoadAndSanitize
<1>3. ASSUME NEW S, Overlay(t, S)
      PROVE  slot'[u] = slot[u]
  BY <1>3 DEF Overlay
<1>4. ASSUME NEW s, Spill(t, s)
      PROVE  slot'[u] = slot[u]
  BY <1>4 DEF Spill
<1>5. CASE InvalidRegister(t)
  BY <1>1, <1>3, <1>5 DEF InvalidRegister
<1>6. CASE (getbndl(t) \/ getbndu(t) \/ getbnd(t) \/ qgetbndl(t)) /\ ~InvalidRegister(t)
  BY <1>1, <1>2, <1>4, <1>6 DEF getbndl, getbndu, getbnd, qgetbndl
<1>7. CASE sanitize(t)
  BY <1>1, <1>4, <1>7 DEF sanitize
<1>8. CASE setbndl(t) \/ setbndu(t)
  BY <1>8 DEF setbndl, setbndu, CallAccessor
<1>9. ASSUME NEW a, NEW b, BndmkOrComplain(t, a, b)
      PROVE  /\ platform' = platform /\ call' = call /\ slot'[u] = slot[u]
             /\ pc'[u] = pc[u] /\ ctx'[u] = ctx[u]
             /\ link'[u] = link[u] /\ out'[u] = out[u]
  BY <1>1, <1>3, <1>9 DEF BndmkOrComplain
<1>10. CASE setbnd(t) \/ qsetbndl(t) \/ setbndl_bndmk(t) \/ setbndu_bndmk(t)
  BY <1>9, <1>10 DEF setbnd, qsetbndl, setbndl_bndmk, setbndu_bndmk
<1>11. CASE Unsupported(t)
  BY <1>1, <1>11 DEF Unsupported, ReturnBool
<1>12. ASSUME NEW next, RestoreNothing(t, next)
       PROVE  /\ platform' = platform /\ call' = call /\ slot'[u] = slot[u]
              /\ pc'[u] = pc[u] /\ ctx'[u] = ctx[u]
              /\ link'[u] = link[u] /\ out'[u] = out[u]
  BY <1>3, <1>12 DEF RestoreNothing, Fault
<1>13. ASSUME NEW cfg, RestoreCfg(t, cfg)
       PROVE  /\ platform' = platform /\ call' = call /\ slot'[u] = slot[u]
              /\ pc'[u] = pc[u] /\ ctx'[u] = ctx[u]
              /\ link'[u] = link[u] /\ out'[u] = out[u]
  BY <1>1, <1>13 DEF RestoreCfg, Fault, ReturnBool
<1>14. CASE MpxrtStep(t)
  BY <1>11, <1>12, <1>13, <1>14 DEF MpxrtStep, process_specific_init, enable_mpx,
     process_specific_finish, disable_mpx
<1>15. CASE SimplexStep(t)
  BY <1>5, <1>6, <1>7, <1>8, <1>10, <1>15 DEF SimplexStep
<1> QED  BY <1>14, <1>15 DEF LibraryStep

(* A context that the library makes, on this machine.                        *)
Made(c) ==
  \/ c = InitContext
  \/ /\ c.cfg = CfgBits
     /\ check_mpx_support(platform)
     /\ platform.xcr0 = MpxComponents

(* A return keeps a thread's part of the invariant if the context it leaves   *)
(* is one the library makes, no spill that should have been cleared is left,  *)
(* and the value returned is the one that the caller or the client expects.   *)
LEMMA ReturnInv ==
  ASSUME TypeOK, NEW t \in Threads, ThreadInv(t), NEW v \in Wide, NEW c \in Context,
         Return(t, v, c), Made(c),
         \A d \in Depths : slot'[t][d].by \in {"none", "qgetbndl", "default"},
         link[t] = "app" /\ call[t].fn \in RuntimeFunctions =>
           (MpxOn(c) <=> call[t].fn = "process_specific_init" /\ v.lo = 1),
         link[t] = "setbndl" /\ MpxOn(c) /\ Reg(t) \in BndRegs =>
           v.lo = Complement(c.bnd[Reg(t)].ub),
         link[t] = "setbndu" /\ MpxOn(c) /\ Reg(t) \in BndRegs =>
           v.lo = c.bnd[Reg(t)].lb
  PROVE  ThreadInv(t)'
<1>1. NearBranch(c) = c
  BY NearBranchKeeps DEF Made
<1>2. /\ platform' = platform /\ call' = call
      /\ ctx'[t] = c /\ out'[t] = v /\ link'[t] = "app"
      /\ pc'[t] = ReturnPoint[link[t]]
  BY <1>1 DEF Return, TypeOK
<1>3. link[t] \in {"app", "setbndl", "setbndu"}
  BY DEF TypeOK
<1>4. InControl(t)'
  BY <1>2, <1>3 DEF ThreadInv, InControl, ReturnPoint, Mutators, RuntimeFunctions, Accessors
<1>5. InContext(t)'
  BY <1>2 DEF InContext, Made
<1>6. BetweenRestores(t)'
  BY <1>2, <1>3 DEF BetweenRestores, ReturnPoint
<1>7. InReturn(t)'
  BY <1>2, <1>3 DEF InReturn, ReturnPoint, Reg
<1>8. InSlots(t)'
  BY DEF InSlots
<1>9. InAnswer(t)'
  BY <1>2, <1>3 DEF InAnswer, ReturnPoint, ThreadInv, InControl, RuntimeFunctions
<1> QED  BY <1>4, <1>5, <1>6, <1>7, <1>8, <1>9 DEF ThreadInv

LEMMA MadeContext ==
  ASSUME NEW t \in Threads, ThreadInv(t)
  PROVE  Made(ctx[t])
  BY DEF ThreadInv, InContext, Made

LEMMA OverlaySlots ==
  ASSUME TypeOK, NEW t \in Threads, NEW S, Overlay(t, S)
  PROVE  \A d \in Depths : slot'[t][d] \in S \cup {slot[t][d]}
  BY DEF Overlay, TypeOK

LEMMA CleanSlots ==
  ASSUME NEW t \in Threads, ThreadInv(t), pc[t] # "sanitize"
  PROVE  \A d \in Depths : slot[t][d].by \in {"none", "qgetbndl", "default"}
  BY DEF ThreadInv, InSlots

(* A switch's default label returns 0 and leaves at most an image that nothing *)
(* promised to clear.                                                        *)
LEMMA InvalidRegisterInv ==
  ASSUME TypeOK, NEW t \in Threads, ThreadInv(t), pc[t] \in Accessors,
         InvalidRegister(t)
  PROVE  ThreadInv(t)'
<1> DEFINE S == JunkSlots \cup
                (IF MpxOn(ctx[t])
                 THEN {SlotOf(ctx[t].bnd[r], "default") : r \in BndRegs} ELSE {})
<1>1. /\ Reg(t) \notin BndRegs /\ Overlay(t, S) /\ Return(t, Zero, ctx[t])
  BY DEF InvalidRegister
<1>2. \A s \in S : s.by \in {"none", "default"}
  BY DEF JunkSlots, SlotOf
<1>3. \A d \in Depths : slot'[t][d].by \in {"none", "qgetbndl", "default"}
  <2> HIDE DEF S
  <2>1. pc[t] # "sanitize"
    BY DEF Accessors
  <2> QED  BY <1>1, <1>2, <2>1, OverlaySlots, CleanSlots
<1>4. ctx[t] \in Context /\ Made(ctx[t])
  BY MadeContext DEF TypeOK
<1>5. link[t] = "app" => call[t].fn \notin RuntimeFunctions
  BY DEF ThreadInv, InControl, Accessors, RuntimeFunctions
<1> QED  BY <1>1, <1>3, <1>4, <1>5, ReturnInv, ZeroType

LEMMA LoadInv ==
  ASSUME TypeOK, NEW t \in Threads, ThreadInv(t), pc[t] \in Accessors \ {"qgetbndl"},
         Reg(t) \in BndRegs, NEW s, Spill(t, s), NEW v, LoadAndSanitize(t, v),
         MpxOn(ctx[t]) =>
           LET b == ctx[t].bnd[Reg(t)] IN
           /\ pc[t] = "getbndl" => v = Widen(b.lb)
           /\ pc[t] = "getbndu" => v = Widen(Complement(b.ub))
           /\ pc[t] = "getbnd" => v = [lo |-> b.lb, hi |-> Complement(b.ub)]
  PROVE  ThreadInv(t)'
<1>1. /\ platform' = platform /\ call' = call /\ ctx' = ctx /\ link' = link
      /\ pc'[t] = "sanitize" /\ out'[t] = v
  BY DEF LoadAndSanitize, TypeOK
<1>2. pc[t] \in {"getbndl", "getbndu", "getbnd"} /\ link[t] \in {"app", "setbndl", "setbndu"}
  BY DEF Accessors, TypeOK
<1>3. InControl(t)'
  BY <1>1, <1>2 DEF ThreadInv, InControl, Mutators, RuntimeFunctions, Accessors, Reg
<1>4. InContext(t)' /\ BetweenRestores(t)' /\ InAnswer(t)'
  BY <1>1 DEF ThreadInv, InContext, BetweenRestores, InAnswer
<1>5. InReturn(t)'
  <2> SUFFICES ASSUME MpxOn(ctx[t])
               PROVE  InReturn(t)'
    BY <1>1 DEF InReturn
  <2> DEFINE b == ctx[t].bnd[Reg(t)]
  <2>1. CASE link[t] = "app"
    <3>1. call[t].fn = pc[t]
      BY <1>2, <2>1 DEF ThreadInv, InControl, Accessors
    <3> QED  BY <1>1, <1>2, <2>1, <3>1 DEF InReturn, Reg, Abstract!Shown, Widen
  <2>2. CASE link[t] = "setbndl"
    <3>1. pc[t] = "getbndu"
      BY <1>2, <2>2 DEF ThreadInv, InControl
    <3> QED  BY <1>1, <2>2, <3>1 DEF InReturn, Reg, Widen
  <2>3. CASE link[t] = "setbndu"
    <3>1. pc[t] = "getbndl"
      BY <1>2, <2>3 DEF ThreadInv, InControl
    <3> QED  BY <1>1, <2>3, <3>1 DEF InReturn, Reg, Widen
  <2> QED  BY <1>2, <2>1, <2>2, <2>3
<1>6. InSlots(t)'
  <2>1. pc[t] # "sanitize"
    BY <1>2
  <2>2. \A d \in Depths : d # Depth(t) => slot'[t][d] = slot[t][d]
    BY DEF Spill, TypeOK
  <2> QED  BY <1>1, <2>1, <2>2, CleanSlots DEF InSlots, Depth
<1> QED  BY <1>3, <1>4, <1>5, <1>6 DEF ThreadInv

LEMMA AccessorInv ==
  ASSUME TypeOK, NEW t \in Threads, ThreadInv(t),
         getbndl(t) \/ getbndu(t) \/ getbnd(t) \/ qgetbndl(t)
  PROVE  ThreadInv(t)'
<1>1. pc[t] \in Accessors
  BY DEF getbndl, getbndu, getbnd, qgetbndl, Accessors
<1>2. CASE InvalidRegister(t)
  BY <1>1, <1>2, InvalidRegisterInv
<1> SUFFICES ASSUME ~InvalidRegister(t)
             PROVE  ThreadInv(t)'
  BY <1>2
<1>3. CASE getbndl(t)
  <2> DEFINE s == Bndmov(t, "getbndl")
  <2>1. /\ pc[t] = "getbndl" /\ Reg(t) \in BndRegs
        /\ Spill(t, s) /\ LoadAndSanitize(t, Widen(s.lb))
    BY <1>3 DEF getbndl
  <2>2. MpxOn(ctx[t]) => s.lb = ctx[t].bnd[Reg(t)].lb
    BY DEF Bndmov, SlotOf
  <2> HIDE DEF s
  <2> QED  BY <1>1, <2>1, <2>2, LoadInv
<1>4. CASE getbndu(t)
  <2> DEFINE s == Bndmov(t, "getbndu")
  <2>1. /\ pc[t] = "getbndu" /\ Reg(t) \in BndRegs
        /\ Spill(t, s) /\ LoadAndSanitize(t, Widen(Complement(s.ub)))
    BY <1>4 DEF getbndu
  <2>2. MpxOn(ctx[t]) => s.ub = ctx[t].bnd[Reg(t)].ub
    BY DEF Bndmov, SlotOf
  <2> HIDE DEF s
  <2> QED  BY <1>1, <2>1, <2>2, LoadInv
<1>5. CASE getbnd(t)
  <2> DEFINE s == Bndmov(t, "getbnd")
             v == [ShiftUp64(Not128(Widen(s.ub))) EXCEPT !.lo = s.lb]
  <2>1. /\ pc[t] = "getbnd" /\ Reg(t) \in BndRegs
        /\ Spill(t, s) /\ LoadAndSanitize(t, v)
    BY <1>5 DEF getbnd
  <2>2. MpxOn(ctx[t]) => s.lb = ctx[t].bnd[Reg(t)].lb /\ s.ub = ctx[t].bnd[Reg(t)].ub
    BY DEF Bndmov, SlotOf
  <2>3. v = [lo |-> s.lb, hi |-> Complement(s.ub)]
    <3> HIDE DEF s
    <3> QED  BY DEF ShiftUp64, Not128, Widen
  <2> HIDE DEF s, v
  <2> QED  BY <1>1, <2>1, <2>2, <2>3, LoadInv
<1>6. CASE qgetbndl(t)
  <2> DEFINE s == Bndmov(t, "qgetbndl")
  <2>1. /\ pc[t] = "qgetbndl" /\ Reg(t) \in BndRegs
        /\ Spill(t, s) /\ Return(t, Widen(s.lb), ctx[t])
    BY <1>6 DEF qgetbndl
  <2>2. s \in Slot /\ s.by \in {"none", "qgetbndl", "default"}
    BY <2>1, BndmovType, CleanSlots DEF Bndmov, SlotOf, Spillers, Accessors, Depth
  <2>3. Widen(s.lb) \in Wide
    BY <2>2, WideType DEF Slot
  <2>4. \A d \in Depths : slot'[t][d].by \in {"none", "qgetbndl", "default"}
    <3> HIDE DEF s
    <3> QED  BY <2>1, <2>2, CleanSlots DEF Spill, TypeOK
  <2>5. link[t] = "app" /\ call[t].fn \notin RuntimeFunctions
    BY <2>1 DEF ThreadInv, InControl, Accessors, RuntimeFunctions, TypeOK
  <2> QED  BY <2>1, <2>3, <2>4, <2>5, MadeContext, ReturnInv DEF TypeOK
<1> QED  BY <1>3, <1>4, <1>5, <1>6

LEMMA SanitizeInv ==
  ASSUME TypeOK, NEW t \in Threads, ThreadInv(t), sanitize(t)
  PROVE  ThreadInv(t)'
<1>1. pc[t] = "sanitize" /\ Spill(t, Blank) /\ Return(t, out[t], ctx[t])
  BY DEF sanitize
<1>2. \A d \in Depths : slot'[t][d].by \in {"none", "qgetbndl", "default"}
  <2>1. \A d \in Depths : d # Depth(t) => slot[t][d].by \in {"none", "qgetbndl", "default"}
    BY DEF ThreadInv, InSlots
  <2> QED  BY <1>1, <2>1 DEF Spill, TypeOK, Blank
<1>3. link[t] = "app" => call[t].fn \notin RuntimeFunctions
  BY <1>1 DEF ThreadInv, InControl, Accessors, RuntimeFunctions
<1>4. MpxOn(ctx[t]) /\ Reg(t) \in BndRegs =>
        /\ link[t] = "setbndl" => out[t].lo = Complement(ctx[t].bnd[Reg(t)].ub)
        /\ link[t] = "setbndu" => out[t].lo = ctx[t].bnd[Reg(t)].lb
  BY <1>1 DEF ThreadInv, InReturn
<1> QED  BY <1>1, <1>2, <1>3, <1>4, MadeContext, ReturnInv DEF TypeOK

LEMMA CallAccessorInv ==
  ASSUME TypeOK, NEW t \in Threads, ThreadInv(t), setbndl(t) \/ setbndu(t)
  PROVE  ThreadInv(t)'
<1>1. NearBranch(ctx[t]) = ctx[t]
  BY MadeContext, NearBranchKeeps DEF Made
<1>2. /\ platform' = platform /\ call' = call /\ ctx'[t] = ctx[t]
      /\ slot' = slot /\ out' = out
      /\ \/ pc[t] = "setbndl" /\ pc'[t] = "getbndu" /\ link'[t] = "setbndl"
         \/ pc[t] = "setbndu" /\ pc'[t] = "getbndl" /\ link'[t] = "setbndu"
  BY <1>1 DEF setbndl, setbndu, CallAccessor, TypeOK
<1>3. InControl(t)'
  BY <1>2 DEF ThreadInv, InControl, Mutators, RuntimeFunctions, Accessors
<1>4. InContext(t)' /\ BetweenRestores(t)' /\ InAnswer(t)' /\ InReturn(t)'
  BY <1>2 DEF ThreadInv, InContext, BetweenRestores, InAnswer, InReturn
<1>5. InSlots(t)'
  BY <1>2, CleanSlots DEF InSlots
<1> QED  BY <1>3, <1>4, <1>5 DEF ThreadInv

LEMMA BndmkOrComplainInv ==
  ASSUME TypeOK, NEW t \in Threads, ThreadInv(t),
         pc[t] \in {"setbnd", "qsetbndl", "setbndl_bndmk", "setbndu_bndmk"},
         NEW a \in Word, NEW b \in Word, BndmkOrComplain(t, a, b)
  PROVE  ThreadInv(t)'
<1>1. link[t] = "app" /\ call[t].fn \notin RuntimeFunctions
  BY DEF ThreadInv, InControl, Accessors, Mutators, RuntimeFunctions
<1>2. \A d \in Depths : slot[t][d].by \in {"none", "qgetbndl", "default"}
  BY CleanSlots
<1>3. CASE Reg(t) \in BndRegs
  <2> DEFINE c == Bndmk(ctx[t], Reg(t), a, b)
  <2>1. Return(t, Zero, c) /\ slot' = slot
    BY <1>3 DEF BndmkOrComplain
  <2>2. c \in Context
    BY <1>3, BndmkType DEF TypeOK
  <2>3. Made(c)
    BY MadeContext, OffInitContext DEF Made, Bndmk, TypeOK, Context
  <2> HIDE DEF c
  <2> QED  BY <1>1, <1>2, <2>1, <2>2, <2>3, ReturnInv, ZeroType
<1>4. CASE Reg(t) \notin BndRegs
  <2>1. Return(t, Zero, ctx[t]) /\ Overlay(t, JunkSlots)
    BY <1>4 DEF BndmkOrComplain
  <2>2. \A s \in JunkSlots : s.by = "none"
    BY DEF JunkSlots
  <2>3. \A d \in Depths : slot'[t][d].by \in {"none", "qgetbndl", "default"}
    BY <1>2, <2>1, <2>2, OverlaySlots
  <2> QED  BY <1>1, <2>1, <2>3, MadeContext, ReturnInv, ZeroType DEF TypeOK
<1> QED  BY <1>3, <1>4

LEMMA MutatorInv ==
  ASSUME TypeOK, NEW t \in Threads, ThreadInv(t),
         setbndl_bndmk(t) \/ setbndu_bndmk(t) \/ setbnd(t) \/ qsetbndl(t)
  PROVE  ThreadInv(t)'
<1>1. Val(t).lo \in Word /\ Val(t).hi \in Word /\ out[t].lo \in Word
  BY DEF TypeOK, Call, Wide, Val
<1>2. \A a, b \in Word : Minus(a, b) \in Word
  BY MinusInWord, WordIsInt
<1>3. ShiftDown64(XorLOWER(Val(t))).lo = Val(t).hi
  BY DEF ShiftDown64, XorLOWER
<1>4. PICK a \in Word, b \in Word :
        /\ pc[t] \in {"setbnd", "qsetbndl", "setbndl_bndmk", "setbndu_bndmk"}
        /\ BndmkOrComplain(t, a, b)
  BY <1>1, <1>2, <1>3, ZeroInWord DEF setbndl_bndmk, setbndu_bndmk, setbnd, qsetbndl
<1> QED  BY <1>4, BndmkOrComplainInv

-----------------------------------------------------------------------------
(* The runtime functions.                                                    *)

LEMMA Fault_Inv ==
  ASSUME NEW u \in Threads, ThreadInv(u), Fault
  PROVE  ThreadInv(u)'
  BY Unmoved DEF Fault

(* XCR0 has both MPX components or none.                                      *)
LEMMA Xcr0 ==
  ASSUME TypeOK
  PROVE  platform.xcr0 = {} \/ platform.xcr0 = MpxComponents
  BY PlatformsAssumption DEF TypeOK, Platform

LEMMA RestoreNothingInv ==
  ASSUME TypeOK, NEW t \in Threads, ThreadInv(t), check_mpx_support(platform),
         \/ pc[t] = "process_specific_init" /\ RestoreNothing(t, "enable_mpx")
         \/ pc[t] = "process_specific_finish" /\ RestoreNothing(t, "disable_mpx")
  PROVE  ThreadInv(t)'
<1>1. CASE Fault
  BY <1>1, Fault_Inv
<1> SUFFICES ASSUME ~Fault
             PROVE  ThreadInv(t)'
  BY <1>1
<1>2. xrstor_state(t, MpxComponents, {}, {}) = InitContext
  <2>1. CASE platform.xcr0 = {}
    <3>1. ctx[t] = InitContext
      BY <2>1 DEF ThreadInv, InContext, MpxComponents
    <3> QED  BY <2>1, <3>1 DEF xrstor_state, Xrstor, InitContext
  <2>2. CASE platform.xcr0 = MpxComponents
    BY <2>2 DEF xrstor_state, Xrstor, MpxComponents, InitContext
  <2> QED  BY <2>1, <2>2, Xcr0
<1>3. /\ platform' = platform /\ call' = call /\ link' = link /\ out' = out
      /\ ctx'[t] = InitContext /\ Overlay(t, {Blank})
      /\ \/ pc[t] = "process_specific_init" /\ pc'[t] = "enable_mpx"
         \/ pc[t] = "process_specific_finish" /\ pc'[t] = "disable_mpx"
  BY <1>2 DEF RestoreNothing, TypeOK
<1>4. InControl(t)'
  BY <1>3 DEF ThreadInv, InControl, Mutators, RuntimeFunctions, Accessors
<1>5. InContext(t)' /\ BetweenRestores(t)' /\ InAnswer(t)'
  BY <1>3 DEF InContext, BetweenRestores, InAnswer
<1>6. InReturn(t)'
  BY <1>3, OffInitContext DEF InReturn
<1>7. InSlots(t)'
  <2>1. pc[t] # "sanitize" /\ Blank.by = "none"
    BY <1>3 DEF Blank
  <2> QED  BY <1>3, <2>1, OverlaySlots, CleanSlots DEF InSlots
<1> QED  BY <1>4, <1>5, <1>6, <1>7 DEF ThreadInv

LEMMA RestoreCfgInv ==
  ASSUME TypeOK, NEW t \in Threads, ThreadInv(t), enable_mpx(t) \/ disable_mpx(t)
  PROVE  ThreadInv(t)'
<1>1. CASE Fault
  BY <1>1, Fault_Inv
<1> SUFFICES ASSUME ~Fault
             PROVE  ThreadInv(t)'
  BY <1>1
<1> DEFINE cfg == IF pc[t] = "enable_mpx" THEN CfgBits ELSE {}
           c == [bnd |-> InitContext.bnd, cfg |-> cfg]
<1>2. /\ pc[t] = "enable_mpx" \/ pc[t] = "disable_mpx"
      /\ ~XrstorFaults(platform, {"BNDCSR"}) /\ slot' = slot
      /\ ReturnBool(t, TRUE, xrstor_state(t, {"BNDCSR"}, {"BNDCSR"}, cfg))
  BY CfgRegType DEF enable_mpx, disable_mpx, RestoreCfg
<1>3. platform.xcr0 = MpxComponents
  BY <1>2, Xcr0 DEF XrstorFaults
<1>4. xrstor_state(t, {"BNDCSR"}, {"BNDCSR"}, cfg) = c
  <2>1. ctx[t] = InitContext
    BY <1>2 DEF ThreadInv, BetweenRestores
  <2> HIDE DEF cfg
  <2> QED  BY <1>3, <2>1 DEF xrstor_state, Xrstor, MpxComponents
<1>5. Return(t, [lo |-> 1, hi |-> 0], c)
  BY <1>2, <1>4 DEF ReturnBool
<1>6. c \in Context /\ [lo |-> 1, hi |-> 0] \in Wide
  BY InitContextType, ZeroInWord DEF Context, Wide
<1>7. Made(c)
  <2>1. check_mpx_support(platform)
    BY <1>2 DEF ThreadInv, BetweenRestores
  <2>2. pc[t] = "disable_mpx" => c = InitContext
    BY DEF InitContext
  <2> QED  BY <1>2, <1>3, <2>1, <2>2 DEF Made
<1>8. MpxOn(c) <=> pc[t] = "enable_mpx"
  BY DEF MpxOn, CfgBits
<1>9. /\ link[t] = "app"
      /\ call[t].fn = IF pc[t] = "enable_mpx"
                      THEN "process_specific_init" ELSE "process_specific_finish"
  BY <1>2 DEF ThreadInv, InControl, Accessors
<1>10. \A d \in Depths : slot'[t][d].by \in {"none", "qgetbndl", "default"}
  BY <1>2, CleanSlots
<1> HIDE DEF c
<1> QED  BY <1>5, <1>6, <1>7, <1>8, <1>9, <1>10, ReturnInv

LEMMA UnsupportedInv ==
  ASSUME TypeOK, NEW t \in Threads, ThreadInv(t), Unsupported(t),
         pc[t] \in RuntimeFunctions
  PROVE  ThreadInv(t)'
<1>1. ~check_mpx_support(platform) /\ slot' = slot /\ Return(t, Zero, ctx[t])
  BY DEF Unsupported, ReturnBool, Zero
<1>2. ~MpxOn(ctx[t]) /\ Made(ctx[t]) /\ ctx[t] \in Context
  BY <1>1, MadeContext, OffInitContext DEF Made, TypeOK
<1>3. link[t] = "app" /\ Zero.lo = 0
  BY DEF ThreadInv, InControl, RuntimeFunctions, Accessors, Zero
<1>4. \A d \in Depths : slot'[t][d].by \in {"none", "qgetbndl", "default"}
  BY <1>1, CleanSlots DEF RuntimeFunctions
<1> QED  BY <1>1, <1>2, <1>3, <1>4, ReturnInv, ZeroType

LEMMA LibraryInv ==
  ASSUME TypeOK, NEW t \in Threads, ThreadInv(t), LibraryStep(t)
  PROVE  ThreadInv(t)'
<1>1. CASE SimplexStep(t)
  BY <1>1, AccessorInv, SanitizeInv, CallAccessorInv, MutatorInv DEF SimplexStep
<1>2. CASE MpxrtStep(t)
  BY <1>2, RestoreNothingInv, RestoreCfgInv, UnsupportedInv
     DEF MpxrtStep, process_specific_init, process_specific_finish, RuntimeFunctions
<1> QED  BY <1>1, <1>2 DEF LibraryStep

-----------------------------------------------------------------------------
(* The client, and the invariant itself.                                     *)

LEMMA InvokeInv ==
  ASSUME TypeOK, NEW t \in Threads, NEW u \in Threads, ThreadInv(t), ThreadInv(u),
         Invoke(t)
  PROVE  ThreadInv(u)'
<1>1. CASE u # t
  BY <1>1, Unmoved DEF Invoke, TypeOK
<1>2. CASE u = t
  <2>1. NearBranch(ctx[t]) = ctx[t]
    BY MadeContext, NearBranchKeeps DEF Made
  <2>2. PICK q \in Requests : call'[t] = q /\ pc'[t] = q.fn
    BY DEF Invoke, TypeOK
  <2>3. q.fn \in Functions
    BY DEF Requests, NoCall, Functions, Mutators
  <2>4. /\ platform' = platform /\ link' = link /\ slot' = slot
        /\ ctx'[t] = ctx[t] /\ pc[t] = "idle"
    BY <2>1 DEF Invoke, TypeOK
  <2>5. link[t] = "app"
    BY <2>4 DEF ThreadInv, InControl, Accessors
  <2>6. InControl(t)'
    BY <2>2, <2>3, <2>4, <2>5
       DEF InControl, Functions, Mutators, Accessors, RuntimeFunctions
  <2>7. InContext(t)' /\ BetweenRestores(t)' /\ InAnswer(t)' /\ InReturn(t)'
    BY <2>2, <2>3, <2>4, <2>5 DEF ThreadInv, InContext, BetweenRestores, InAnswer, InReturn,
       Functions, Mutators, Accessors, RuntimeFunctions
  <2>8. InSlots(t)'
    BY <2>4, CleanSlots DEF InSlots
  <2> QED  BY <1>2, <2>6, <2>7, <2>8 DEF ThreadInv
<1> QED  BY <1>1, <1>2

LEMMA UseStackInv ==
  ASSUME TypeOK, NEW t \in Threads, NEW u \in Threads, ThreadInv(u), UseStack(t)
  PROVE  ThreadInv(u)'
<1>1. /\ Overlay(t, JunkSlots)
      /\ UNCHANGED <<platform, alive, pc, ctx, call, link, out>> /\ pc[t] = "idle"
  BY DEF UseStack
<1>2. CASE u # t
  <2>1. slot'[u] = slot[u]
    BY <1>1, <1>2 DEF Overlay, TypeOK
  <2> QED  BY <1>1, <2>1, Unmoved
<1>3. CASE u = t
  <2>1. \A s \in JunkSlots : s.by = "none"
    BY DEF JunkSlots
  <2>2. InSlots(u)'
    BY <1>1, <1>3, <2>1, OverlaySlots, CleanSlots DEF InSlots
  <2>3. InControl(u)' /\ InContext(u)' /\ BetweenRestores(u)' /\ InAnswer(u)'
    BY <1>1 DEF ThreadInv, InControl, InContext, BetweenRestores, InAnswer, Reg
  <2>4. InReturn(u)'
    BY <1>1 DEF ThreadInv, InReturn, Reg
  <2> QED  BY <2>2, <2>3, <2>4 DEF ThreadInv
<1> QED  BY <1>2, <1>3

LEMMA SpawnInv ==
  ASSUME TypeOK, NEW t \in Threads, NEW n \in Threads, NEW u \in Threads,
         ThreadInv(t), ThreadInv(n), ThreadInv(u), Spawn(t, n)
  PROVE  ThreadInv(u)'
<1>1. /\ UNCHANGED <<platform, alive, slot, call, link, out>>
      /\ pc[t] = "idle" /\ pc[n] = "unborn"
      /\ pc'[n] = "idle" /\ ctx'[n] = ctx[t]
  BY DEF Spawn, TypeOK
<1>2. CASE u # n
  BY <1>1, <1>2, Unmoved DEF Spawn, TypeOK
<1>3. CASE u = n
  <2>1. link[u] = "app"
    BY <1>1, <1>3 DEF ThreadInv, InControl, Accessors
  <2>2. InControl(u)'
    BY <1>1, <1>3, <2>1 DEF InControl, Mutators, RuntimeFunctions, Accessors
  <2>3. InContext(u)' /\ BetweenRestores(u)' /\ InReturn(u)'
    BY <1>1, <1>3 DEF ThreadInv, InContext, BetweenRestores, InReturn
  <2>4. InSlots(u)'
    BY <1>1, <1>3, CleanSlots DEF InSlots
  <2>5. InAnswer(u)'
    BY <1>1, <1>3 DEF ThreadInv, InControl, InAnswer, RuntimeFunctions
  <2> QED  BY <2>2, <2>3, <2>4, <2>5 DEF ThreadInv
<1> QED  BY <1>2, <1>3

LEMMA KilledInv ==
  ASSUME TypeOK, ProcessInv, NEW t \in Threads, LibraryStep(t)
  PROVE  KilledOnlyWithoutKernelSupport'
<1> USE DEF KilledOnlyWithoutKernelSupport
<1>1. platform' = platform
  <2>2. CASE SimplexStep(t)
    BY <2>2 DEF SimplexStep, getbndl, getbndu, getbnd, qgetbndl, sanitize, setbndl,
       setbndu, setbnd, qsetbndl, setbndl_bndmk, setbndu_bndmk, InvalidRegister,
       LoadAndSanitize, CallAccessor, BndmkOrComplain, Return
  <2>3. CASE MpxrtStep(t)
    BY <2>3 DEF MpxrtStep, process_specific_init, process_specific_finish, enable_mpx,
       disable_mpx, RestoreNothing, RestoreCfg, Unsupported, ReturnBool, Return, Fault
  <2> QED  BY <2>2, <2>3 DEF LibraryStep
<1>2. CASE SimplexStep(t)
  <2>1. alive' = alive
    BY <1>2 DEF SimplexStep, getbndl, getbndu, getbnd, qgetbndl, sanitize, setbndl,
       setbndu, setbnd, qsetbndl, setbndl_bndmk, setbndu_bndmk, InvalidRegister,
       LoadAndSanitize, CallAccessor, BndmkOrComplain, Return
  <2> QED  BY <1>1, <2>1 DEF ProcessInv
<1>3. CASE MpxrtStep(t) /\ alive' = alive
  BY <1>1, <1>3 DEF ProcessInv
<1>4. CASE MpxrtStep(t) /\ Fault
  <2>1. ThreadInv(t)
    BY DEF ProcessInv
  <2>2. check_mpx_support(platform)
    BY <1>4, <2>1 DEF MpxrtStep, process_specific_init, process_specific_finish,
       enable_mpx, disable_mpx, Unsupported, ReturnBool, Return, Fault, LibraryStep,
       ThreadInv, BetweenRestores
  <2>3. XrstorFaults(platform, {}) \/ XrstorFaults(platform, {"BNDCSR"})
    BY <1>4, <2>2 DEF MpxrtStep, process_specific_init, process_specific_finish,
       enable_mpx, disable_mpx, Unsupported, RestoreNothing, RestoreCfg, ReturnBool,
       Return, Fault, LibraryStep
  <2>4. ~platform.osxsave \/ platform.xcr0 = {}
    BY <2>3, Xcr0 DEF XrstorFaults, MpxComponents
  <2> QED  BY <1>1, <2>2, <2>4
<1>5. MpxrtStep(t) => Fault \/ alive' = alive
  BY DEF MpxrtStep, process_specific_init, process_specific_finish, enable_mpx,
     disable_mpx, RestoreNothing, RestoreCfg, Unsupported, ReturnBool, Return
<1> QED  BY <1>2, <1>3, <1>4, <1>5 DEF LibraryStep

LEMMA InvariantInit == Init => ProcessInv
<1> SUFFICES ASSUME Init
             PROVE  ProcessInv
  OBVIOUS
<1>1. KilledOnlyWithoutKernelSupport
  BY DEF Init, KilledOnlyWithoutKernelSupport
<1>2. ASSUME NEW t \in Threads
      PROVE  ThreadInv(t)
  <2>1. /\ pc[t] \in {"idle", "unborn"} /\ ctx[t] = InitContext /\ link[t] = "app"
        /\ call[t].fn = "none" /\ out[t] = Zero
        /\ \A d \in Depths : slot[t][d].by = "none"
    BY DEF Init, NoCall, Blank
  <2>2. InControl(t)
    BY <2>1 DEF InControl, Mutators, RuntimeFunctions, Accessors
  <2>3. InContext(t) /\ BetweenRestores(t) /\ InReturn(t) /\ InSlots(t) /\ InAnswer(t)
    BY <2>1, OffInitContext
       DEF InContext, BetweenRestores, InReturn, InSlots, InAnswer, RuntimeFunctions
  <2> QED  BY <2>2, <2>3 DEF ThreadInv
<1> QED  BY <1>1, <1>2 DEF ProcessInv

LEMMA InvariantStep ==
  ASSUME TypeOK, ProcessInv, [Next]_vars
  PROVE  ProcessInv'
<1>1. CASE UNCHANGED vars
  BY <1>1, Unmoved DEF vars, ProcessInv, KilledOnlyWithoutKernelSupport
<1>2. ASSUME NEW t \in Threads, LibraryStep(t)
      PROVE  ProcessInv'
  <2>1. ASSUME NEW u \in Threads
        PROVE  ThreadInv(u)'
    BY <1>2, LibraryInv, OthersInLibrary, Unmoved DEF ProcessInv
  <2> QED  BY <1>2, <2>1, KilledInv DEF ProcessInv
<1>3. ASSUME NEW t \in Threads, ClientStep(t)
      PROVE  ProcessInv'
  <2>1. KilledOnlyWithoutKernelSupport'
    BY <1>3 DEF ClientStep, Invoke, UseStack, Spawn, ProcessInv,
       KilledOnlyWithoutKernelSupport
  <2>2. ASSUME NEW u \in Threads
        PROVE  ThreadInv(u)'
    BY <1>3, InvokeInv, UseStackInv, SpawnInv DEF ClientStep, ProcessInv
  <2> QED  BY <2>1, <2>2 DEF ProcessInv
<1> QED  BY <1>1, <1>2, <1>3 DEF Next

THEOREM Invariant == Spec => [](TypeOK /\ ProcessInv)
<1>1. TypeOK /\ ProcessInv /\ [Next]_vars => ProcessInv'
  BY InvariantStep
<1> QED  BY <1>1, InvariantInit, TypeCorrect, PTL DEF Spec

-----------------------------------------------------------------------------
(* The properties that the runs check, for every value of the constants.      *)

(* After a call returns, the stack holds no register's image but those that   *)
(* qgetbndl and the default labels leave.                                    *)
THEOREM SpillsAreCleared == Spec => []NoLeftoverSpill
<1>1. TypeOK /\ ProcessInv => NoLeftoverSpill
  BY DEF ProcessInv, ThreadInv, InSlots, NoLeftoverSpill
<1> QED  BY <1>1, Invariant, PTL

(* A thread without MPX holds the initial context: nothing survives           *)
(* process_specific_finish.                                                  *)
THEOREM OffIsClean == Spec => []OffMeansClean
<1>1. TypeOK /\ ProcessInv => OffMeansClean
  BY DEF ProcessInv, ThreadInv, InContext, OffMeansClean, MpxOn, CfgBits
<1> QED  BY <1>1, Invariant, PTL

(* What process_specific_init and process_specific_finish answer is so.       *)
THEOREM RuntimeAnswers == Spec => []AnswersAreTrue
<1>1. TypeOK /\ ProcessInv => AnswersAreTrue
  BY DEF ProcessInv, ThreadInv, InAnswer, AnswersAreTrue
<1> QED  BY <1>1, Invariant, PTL

(* The runtime functions kill the process only where CPUID reports MPX and    *)
(* the kernel does not enable it.                                            *)
THEOREM KilledOnlyThere == Spec => []KilledOnlyWithoutKernelSupport
<1>1. TypeOK /\ ProcessInv => KilledOnlyWithoutKernelSupport
  BY DEF ProcessInv
<1> QED  BY <1>1, Invariant, PTL
=============================================================================
