--------------------------- MODULE RegStore_proofs -------------------------
(***************************************************************************)
(* SimplexProcess implements RegStore: the proof that the accessors, the   *)
(* mutators and the runtime functions are atomic operations on the store   *)
(* of the calling thread.                                                  *)
(***************************************************************************)
EXTENDS SimplexProcess_proofs

(* What the switch that ends a mutator does to the context.                   *)
LEMMA BndmkEffect ==
  ASSUME TypeOK, NEW t \in Threads, ThreadInv(t), NEW a \in Word, NEW b \in Word,
         BndmkOrComplain(t, a, b)
  PROVE  /\ Reg(t) \in BndRegs => ctx'[t] = Bndmk(ctx[t], Reg(t), a, b)
         /\ Reg(t) \notin BndRegs => ctx'[t] = ctx[t]
         /\ out'[t] = Zero
<1>1. NearBranch(ctx[t]) = ctx[t]
  BY MadeContext, NearBranchKeeps DEF Made
<1>2. CASE Reg(t) \in BndRegs
  <2> DEFINE c == Bndmk(ctx[t], Reg(t), a, b)
  <2>1. Made(c)
    BY MadeContext, OffInitContext DEF Made, Bndmk, TypeOK, Context
  <2>2. NearBranch(c) = c
    BY <2>1, NearBranchKeeps DEF Made
  <2>3. Return(t, Zero, c)
    BY <1>2 DEF BndmkOrComplain
  <2> HIDE DEF c
  <2>4. ctx'[t] = c /\ out'[t] = Zero
    BY <2>2, <2>3 DEF Return, TypeOK
  <2> QED  BY <1>2, <2>4 DEF c
<1>3. CASE Reg(t) \notin BndRegs
  BY <1>1, <1>3 DEF BndmkOrComplain, Return, TypeOK
<1> QED  BY <1>2, <1>3

(* A near return leaves the context of a thread as the function made it.      *)
LEMMA ReturnEffect ==
  ASSUME TypeOK, NEW t \in Threads, NEW v, NEW c, Made(c), Return(t, v, c)
  PROVE  /\ ctx' = [ctx EXCEPT ![t] = c]
         /\ out' = [out EXCEPT ![t] = v]
         /\ pc' = [pc EXCEPT ![t] = ReturnPoint[link[t]]]
         /\ UNCHANGED <<platform, alive, call>>
  BY NearBranchKeeps DEF Return, Made

(* The steps of simplex.c that are not mutators keep every context.           *)
LEMMA AccessorKeepsContext ==
  ASSUME TypeOK, NEW t \in Threads, ThreadInv(t),
         \/ getbndl(t) \/ getbndu(t) \/ getbnd(t) \/ qgetbndl(t) \/ sanitize(t)
         \/ setbndl(t) \/ setbndu(t)
  PROVE  ctx' = ctx /\ UNCHANGED <<platform, alive, call>>
<1>1. Made(ctx[t]) /\ ctx = [ctx EXCEPT ![t] = ctx[t]]
  BY MadeContext DEF TypeOK
<1>2. ASSUME NEW v, Return(t, v, ctx[t])
      PROVE  ctx' = ctx /\ UNCHANGED <<platform, alive, call>>
  BY <1>1, <1>2, ReturnEffect
<1>3. CASE InvalidRegister(t)
  BY <1>2, <1>3 DEF InvalidRegister
<1>4. CASE sanitize(t)
  BY <1>2, <1>4 DEF sanitize
<1>5. CASE (getbndl(t) \/ getbndu(t) \/ getbnd(t) \/ qgetbndl(t)) /\ ~InvalidRegister(t)
  BY <1>2, <1>5 DEF getbndl, getbndu, getbnd, qgetbndl, LoadAndSanitize
<1>6. CASE setbndl(t) \/ setbndu(t)
  <2>1. NearBranch(ctx[t]) = ctx[t]
    BY <1>1, NearBranchKeeps DEF Made
  <2> QED  BY <1>1, <1>6, <2>1 DEF setbndl, setbndu, CallAccessor
<1> QED  BY <1>3, <1>4, <1>5, <1>6

-----------------------------------------------------------------------------
(* Where a thread can be while it runs a mutator of one half.                *)
LEMMA SetbndlControl ==
  ASSUME TypeOK, NEW t \in Threads, ThreadInv(t), Busy(t)
  PROVE  /\ call[t].fn = "setbndl" =>
              pc[t] \in {"setbndl", "getbndu", "sanitize", "setbndl_bndmk"}
         /\ call[t].fn = "setbndu" =>
              pc[t] \in {"setbndu", "getbndl", "sanitize", "setbndu_bndmk"}
<1>1. /\ pc[t] \in Functions \cup InnerPoints
      /\ link[t] \in {"app", "setbndl", "setbndu"}
  BY DEF TypeOK, Busy
<1> QED  BY <1>1 DEF ThreadInv, InControl, Functions, InnerPoints, Accessors,
            Mutators, RuntimeFunctions

(* setbndl keeps the upper half and setbndu the lower one, whatever wraps.    *)
THEOREM OtherHalfKept == Spec => KeepsOtherHalf
<1> DEFINE Keeps(t, r) ==
       /\ call[t].fn = "setbndl" /\ Busy(t) =>
            ctx'[t].bnd[r].ub = ctx[t].bnd[r].ub
       /\ call[t].fn = "setbndu" /\ Busy(t) =>
            ctx'[t].bnd[r].lb = ctx[t].bnd[r].lb
<1>1. ASSUME TypeOK, ProcessInv, [Next]_vars, NEW t \in Threads, NEW r \in BndRegs
      PROVE  Keeps(t, r)
  <2> SUFFICES ASSUME Busy(t), call[t].fn \in {"setbndl", "setbndu"}
               PROVE  Keeps(t, r)
    OBVIOUS
  <2>1. ThreadInv(t)
    BY <1>1 DEF ProcessInv
  <2>2. CASE UNCHANGED vars
    BY <2>2 DEF vars
  <2>3. ASSUME NEW u \in Threads, LibraryStep(u), u # t
        PROVE  Keeps(t, r)
    <3>1. ctx'[t] = ctx[t]
      BY <1>1, <2>3, OthersInLibrary
    <3> QED  BY <3>1
  <2>4. ASSUME NEW u \in Threads, ClientStep(u)
        PROVE  Keeps(t, r)
    <3>1. ctx'[t] = ctx[t]
      BY <1>1, <2>4 DEF ClientStep, Invoke, UseStack, Spawn, Busy, TypeOK
    <3> QED  BY <3>1
  <2>5. ASSUME LibraryStep(t)
        PROVE  Keeps(t, r)
    <3>1. \/ ctx'[t] = ctx[t]
          \/ setbndl_bndmk(t) /\ call[t].fn = "setbndl"
          \/ setbndu_bndmk(t) /\ call[t].fn = "setbndu"
      <4>1. pc[t] \in {"setbndl", "setbndu", "getbndl", "getbndu", "sanitize",
                       "setbndl_bndmk", "setbndu_bndmk"}
        BY <1>1, <2>1, SetbndlControl
      <4>2. CASE MpxrtStep(t)
        BY <4>1, <4>2 DEF MpxrtStep, process_specific_init, process_specific_finish,
           enable_mpx, disable_mpx
      <4>3. CASE getbndl(t) \/ getbndu(t) \/ getbnd(t) \/ qgetbndl(t) \/ sanitize(t)
                 \/ setbndl(t) \/ setbndu(t)
        BY <1>1, <2>1, <4>3, AccessorKeepsContext
      <4>4. CASE setbnd(t) \/ qsetbndl(t)
        BY <4>1, <4>4 DEF setbnd, qsetbndl
      <4>5. CASE setbndl_bndmk(t) \/ setbndu_bndmk(t)
        BY <2>1, <4>5 DEF ThreadInv, InControl, setbndl_bndmk, setbndu_bndmk
      <4> QED  BY <2>5, <4>2, <4>3, <4>4, <4>5 DEF LibraryStep, SimplexStep
    <3>2. /\ Val(t).lo \in Word /\ out[t].lo \in Word
          /\ ctx[t] \in Context
      BY <1>1 DEF TypeOK, Call, Wide, Val
    <3>3. \A a, b \in Word : Minus(a, b) \in Word
      BY MinusInWord, WordIsInt
    <3>4. CASE setbndl_bndmk(t) /\ call[t].fn = "setbndl"
      <4> DEFINE upper == Minus(out[t].lo, Val(t).lo)
      <4>1. upper \in Word /\ BndmkOrComplain(t, Val(t).lo, upper) /\ pc[t] = "setbndl_bndmk"
        BY <3>2, <3>3, <3>4 DEF setbndl_bndmk
      <4>2. Plus(Val(t).lo, upper) = out[t].lo
        BY <3>2, PlusMinus
      <4> HIDE DEF upper
      <4>3. \/ ctx'[t] = ctx[t]
            \/ /\ MpxOn(ctx[t]) /\ Reg(t) \in BndRegs
               /\ ctx'[t] = [ctx[t] EXCEPT !.bnd[Reg(t)] = BNDMK(Val(t).lo, upper)]
        BY <1>1, <2>1, <3>2, <4>1, BndmkEffect DEF Bndmk
      <4>4. MpxOn(ctx[t]) /\ Reg(t) \in BndRegs =>
              BNDMK(Val(t).lo, upper).ub = ctx[t].bnd[Reg(t)].ub
        <5>1. Reg(t) \in BndRegs => ctx[t].bnd[Reg(t)].ub \in Word
          BY <3>2 DEF Context, Bounds
        <5>2. MpxOn(ctx[t]) /\ Reg(t) \in BndRegs =>
                out[t].lo = Complement(ctx[t].bnd[Reg(t)].ub)
          BY <2>1, <4>1 DEF ThreadInv, InReturn
        <5> QED  BY <4>2, <5>1, <5>2, ComplementInWord DEF BNDMK
      <4> QED  BY <3>2, <3>4, <4>3, <4>4 DEF Context
    <3>5. CASE setbndu_bndmk(t) /\ call[t].fn = "setbndu"
      <4> DEFINE index == Minus(Val(t).lo, out[t].lo)
      <4>1. index \in Word /\ BndmkOrComplain(t, out[t].lo, index) /\ pc[t] = "setbndu_bndmk"
        BY <3>2, <3>3, <3>5 DEF setbndu_bndmk
      <4> HIDE DEF index
      <4>2. \/ ctx'[t] = ctx[t]
            \/ /\ MpxOn(ctx[t]) /\ Reg(t) \in BndRegs
               /\ ctx'[t] = [ctx[t] EXCEPT !.bnd[Reg(t)] = BNDMK(out[t].lo, index)]
        BY <1>1, <2>1, <3>2, <4>1, BndmkEffect DEF Bndmk
      <4>3. MpxOn(ctx[t]) /\ Reg(t) \in BndRegs =>
              BNDMK(out[t].lo, index).lb = ctx[t].bnd[Reg(t)].lb
        BY <2>1, <4>1 DEF ThreadInv, InReturn, BNDMK
      <4> QED  BY <3>2, <3>5, <4>2, <4>3 DEF Context
    <3> QED  BY <3>1, <3>4, <3>5
  <2> QED  BY <1>1, <2>2, <2>3, <2>4, <2>5 DEF Next
<1>2. TypeOK /\ ProcessInv /\ [Next]_vars =>
        [\A t \in Threads, r \in BndRegs : Keeps(t, r)]_vars
  BY <1>1
<1> QED  BY <1>2, Invariant, PTL DEF Spec, KeepsOtherHalf

-----------------------------------------------------------------------------
(* The refinement.  A step of the library by thread t is a stutter of the    *)
(* store while it stays within the call with the same context, and one of    *)
(* the store's actions when it returns to the client.                        *)

LEMMA StutterMaps ==
  ASSUME TypeOK, NEW t \in Threads, LibraryStep(t), Busy(t), Busy(t)',
         ctx'[t] = ctx[t], UNCHANGED <<platform, alive, call>>
  PROVE  UNCHANGED Abstract!storeVars
<1>1. \A u \in Threads : u # t => pc'[u] = pc[u] /\ ctx'[u] = ctx[u] /\ out'[u] = out[u]
  BY OthersInLibrary
<1>2. Status' = Status
  BY <1>1 DEF Status, Busy
<1>3. Reply' = Reply
  BY <1>1 DEF Reply, Busy
<1>4. On' = On /\ Store' = Store
  BY <1>1 DEF On, Store
<1>5. check_mpx_support(platform)' = check_mpx_support(platform)
  BY DEF check_mpx_support
<1> QED  BY <1>2, <1>3, <1>4, <1>5 DEF Abstract!storeVars

LEMMA ReturnMaps ==
  ASSUME TypeOK, NEW t \in Threads, LibraryStep(t), Busy(t), link[t] = "app",
         NEW v, NEW c, Made(c), Return(t, v, c)
  PROVE  /\ Abstract!Answer(t, v)
         /\ On' = [On EXCEPT ![t] = MpxOn(c)]
         /\ Store' = [Store EXCEPT ![t] = Presented(c)]
         /\ alive' = alive
<1>1. \A u \in Threads : u # t => pc'[u] = pc[u] /\ ctx'[u] = ctx[u] /\ out'[u] = out[u]
  BY OthersInLibrary
<1>2. /\ ctx' = [ctx EXCEPT ![t] = c] /\ out' = [out EXCEPT ![t] = v]
      /\ pc'[t] = "idle" /\ UNCHANGED <<platform, alive, call>>
  BY ReturnEffect DEF ReturnPoint, TypeOK
<1>3. ctx'[t] = c /\ out'[t] = v
  BY <1>2 DEF TypeOK
<1>4. Status[t] = "busy" /\ Status' = [Status EXCEPT ![t] = "idle"]
  BY <1>1, <1>2 DEF Status, Busy
<1>5. Reply' = [Reply EXCEPT ![t] = v]
  BY <1>1, <1>2, <1>3 DEF Reply, Busy
<1>6. On' = [On EXCEPT ![t] = MpxOn(c)]
  BY <1>1, <1>3 DEF On
<1>7. Store' = [Store EXCEPT ![t] = Presented(c)]
  BY <1>1, <1>3 DEF Store
<1>8. check_mpx_support(platform)' = check_mpx_support(platform)
  BY <1>2 DEF check_mpx_support
<1> QED  BY <1>2, <1>4, <1>5, <1>6, <1>7, <1>8 DEF Abstract!Answer

LEMMA SameContextMaps ==
  ASSUME NEW t \in Threads
  PROVE  /\ On = [On EXCEPT ![t] = MpxOn(ctx[t])]
         /\ Store = [Store EXCEPT ![t] = Presented(ctx[t])]
  BY DEF On, Store

(* An accessor and a mutator with a register that does not exist.            *)
LEMMA InvalidMaps ==
  ASSUME TypeOK, NEW t \in Threads, ThreadInv(t), LibraryStep(t), Busy(t),
         link[t] = "app", Reg(t) \notin BndRegs,
         call[t].fn \in Accessors \cup Mutators, Return(t, Zero, ctx[t])
  PROVE  Abstract!Reject(t)
<1>1. Abstract!Answer(t, Zero) /\ UNCHANGED <<On, Store>>
  BY ReturnMaps, SameContextMaps, MadeContext
<1> QED  BY <1>1 DEF Abstract!Reject, Abstract!NoReply, Zero, Reg, Accessors, Mutators,
            Abstract!Readers, Abstract!Writers

(* A return of an accessor to the client with what the register holds.        *)
LEMMA ReadMaps ==
  ASSUME TypeOK, NEW t \in Threads, ThreadInv(t), LibraryStep(t), Busy(t),
         link[t] = "app", Reg(t) \in BndRegs, call[t].fn \in Accessors,
         NEW v \in Wide, Return(t, v, ctx[t]),
         MpxOn(ctx[t]) => v = Abstract!Shown(call[t].fn, Presented(ctx[t])[Reg(t)])
  PROVE  Abstract!Read(t)
<1>1. Abstract!Answer(t, v) /\ UNCHANGED <<On, Store>>
  BY ReturnMaps, SameContextMaps, MadeContext
<1>2. On[t] = MpxOn(ctx[t]) /\ Store[t] = Presented(ctx[t])
  BY DEF On, Store
<1>3. call[t].fn \in Abstract!Readers
  BY DEF Abstract!Readers, Accessors
<1>4. CASE MpxOn(ctx[t])
  BY <1>1, <1>2, <1>3, <1>4 DEF Abstract!Read, Reg
<1>5. CASE ~MpxOn(ctx[t])
  <2>1. PICK a \in Word, b \in Word : v = [lo |-> a, hi |-> b]
    BY DEF Wide
  <2> QED  BY <1>1, <1>2, <1>3, <1>5, <2>1 DEF Abstract!Read, Reg
<1> QED  BY <1>4, <1>5

(* A mutator's bndmk sets the halves that its function names.                 *)
LEMMA WriteMaps ==
  ASSUME TypeOK, NEW t \in Threads, ThreadInv(t), LibraryStep(t), Busy(t),
         link[t] = "app", call[t].fn \in Mutators,
         NEW a \in Word, NEW b \in Word, BndmkOrComplain(t, a, b),
         MpxOn(ctx[t]) /\ Reg(t) \in BndRegs =>
           [lower |-> a, upper |-> Plus(a, b)] =
             Abstract!Written(call[t].fn, Presented(ctx[t])[Reg(t)], Val(t))
  PROVE  Abstract!Write(t) \/ Abstract!Reject(t)
<1>1. CASE Reg(t) \notin BndRegs
  BY <1>1, InvalidMaps DEF BndmkOrComplain
<1>2. CASE Reg(t) \in BndRegs
  <2> DEFINE c == Bndmk(ctx[t], Reg(t), a, b)
  <2>1. Return(t, Zero, c)
    BY <1>2 DEF BndmkOrComplain
  <2>2. Made(c) /\ MpxOn(c) = MpxOn(ctx[t])
    <3>1. ctx[t] \in Context /\ Made(ctx[t])
      BY MadeContext DEF TypeOK
    <3> QED  BY <3>1, OffInitContext DEF Made, Bndmk, MpxOn, Context
  <2> HIDE DEF c
  <2>3. /\ Abstract!Answer(t, Zero)
        /\ On' = On
        /\ Store' = [Store EXCEPT ![t] = Presented(c)]
    BY <2>1, <2>2, ReturnMaps, SameContextMaps
  <2>4. On[t] = MpxOn(ctx[t]) /\ Store[t] = Presented(ctx[t])
    BY DEF On, Store
  <2>5. call[t].fn \in Abstract!Writers /\ Zero = Abstract!NoReply
    BY DEF Abstract!Writers, Mutators, Zero, Abstract!NoReply
  <2>6. CASE ~MpxOn(ctx[t])
    <3>1. c = ctx[t]
      BY <2>6 DEF c, Bndmk
    <3>2. Store' = Store
      BY <2>3, <3>1, SameContextMaps
    <3> QED  BY <1>2, <2>3, <2>4, <2>5, <2>6, <3>2 DEF Abstract!Write, Reg
  <2>7. CASE MpxOn(ctx[t])
    <3>1. Plus(a, b) \in Word
      BY PlusInWord, WordIsInt
    <3>2. c.bnd = [ctx[t].bnd EXCEPT ![Reg(t)] = BNDMK(a, b)]
      BY <2>7 DEF c, Bndmk, TypeOK, Context
    <3>3. Presented(c) =
            [Presented(ctx[t]) EXCEPT ![Reg(t)] = [lower |-> a, upper |-> Plus(a, b)]]
      <4>1. ctx[t].bnd \in [BndRegs -> Bounds]
        BY DEF TypeOK, Context
      <4>2. BNDMK(a, b).lb = a /\ Complement(BNDMK(a, b).ub) = Plus(a, b)
        BY <3>1, ComplementInWord DEF BNDMK
      <4> QED  BY <1>2, <3>2, <4>1, <4>2 DEF Presented
    <3>4. Store' = [Store EXCEPT ![t][Reg(t)] =
                      Abstract!Written(call[t].fn, Store[t][Reg(t)], Val(t))]
      <4>1. DOMAIN Store = Threads
        BY DEF Store
      <4> QED  BY <1>2, <2>3, <2>4, <2>7, <3>3, <4>1
    <3> QED  BY <1>2, <2>3, <2>4, <2>5, <2>7, <3>4 DEF Abstract!Write, Reg, Val
  <2> QED  BY <2>6, <2>7
<1> QED  BY <1>1, <1>2

-----------------------------------------------------------------------------
(* Each step of the library is a step of the store.                          *)

LEMMA BusyInLibrary ==
  ASSUME NEW t \in Threads, LibraryStep(t)
  PROVE  Busy(t)
  BY DEF LibraryStep, SimplexStep, MpxrtStep, getbndl, getbndu, getbnd, qgetbndl,
     sanitize, setbndl, setbndu, CallAccessor, setbnd, qsetbndl, setbndl_bndmk,
     setbndu_bndmk, process_specific_init, process_specific_finish, enable_mpx,
     disable_mpx, Busy

LEMMA NestedReturnMaps ==
  ASSUME TypeOK, NEW t \in Threads, ThreadInv(t), LibraryStep(t),
         link[t] # "app", NEW v, Return(t, v, ctx[t])
  PROVE  UNCHANGED Abstract!storeVars
<1>1. /\ pc'[t] \in {"setbndl_bndmk", "setbndu_bndmk"} /\ ctx'[t] = ctx[t]
      /\ UNCHANGED <<platform, alive, call>>
  BY MadeContext, ReturnEffect DEF ReturnPoint, TypeOK
<1> QED  BY <1>1, BusyInLibrary, StutterMaps DEF Busy

LEMMA AccessorMaps ==
  ASSUME TypeOK, NEW t \in Threads, ThreadInv(t), LibraryStep(t),
         getbndl(t) \/ getbndu(t) \/ getbnd(t) \/ qgetbndl(t)
  PROVE  [Abstract!Reject(t) \/ Abstract!Read(t)]_(Abstract!storeVars)
<1>1. Busy(t) /\ pc[t] \in Accessors
  BY BusyInLibrary DEF getbndl, getbndu, getbnd, qgetbndl, Accessors
<1>2. link[t] = "app" => call[t].fn = pc[t]
  BY <1>1 DEF ThreadInv, InControl
<1>3. CASE InvalidRegister(t)
  <2>1. Reg(t) \notin BndRegs /\ Return(t, Zero, ctx[t])
    BY <1>3 DEF InvalidRegister
  <2> QED  BY <1>1, <1>2, <2>1, InvalidMaps, NestedReturnMaps
<1>4. CASE ~InvalidRegister(t) /\ ~qgetbndl(t)
  <2>1. PICK v : LoadAndSanitize(t, v)
    BY <1>4 DEF getbndl, getbndu, getbnd
  <2>2. /\ pc'[t] = "sanitize" /\ ctx' = ctx
        /\ UNCHANGED <<platform, alive, call>>
    BY <2>1 DEF LoadAndSanitize, TypeOK
  <2> QED  BY <1>1, <2>2, StutterMaps DEF Busy
<1>5. CASE ~InvalidRegister(t) /\ qgetbndl(t)
  <2> DEFINE s == Bndmov(t, "qgetbndl")
  <2>1. /\ pc[t] = "qgetbndl" /\ Reg(t) \in BndRegs
        /\ Return(t, Widen(s.lb), ctx[t])
    BY <1>5 DEF qgetbndl
  <2>2. link[t] = "app" /\ call[t].fn = "qgetbndl"
    BY <1>2, <2>1 DEF ThreadInv, InControl, TypeOK
  <2>3. Widen(s.lb) \in Wide
    <3>1. s \in Slot
      BY <2>1, BndmovType DEF Spillers, Accessors
    <3> QED  BY <3>1, WideType DEF Slot
  <2>4. MpxOn(ctx[t]) =>
          Widen(s.lb) = Abstract!Shown("qgetbndl", Presented(ctx[t])[Reg(t)])
    BY <2>1 DEF Bndmov, SlotOf, Widen, Presented, Abstract!Shown
  <2> HIDE DEF s
  <2> QED  BY <1>1, <2>1, <2>2, <2>3, <2>4, ReadMaps
<1> QED  BY <1>3, <1>4, <1>5

LEMMA SanitizeMaps ==
  ASSUME TypeOK, NEW t \in Threads, ThreadInv(t), LibraryStep(t), sanitize(t)
  PROVE  [Abstract!Read(t)]_(Abstract!storeVars)
<1>1. pc[t] = "sanitize" /\ Return(t, out[t], ctx[t])
  BY DEF sanitize
<1>2. CASE link[t] = "app"
  <2>1. Reg(t) \in BndRegs /\ call[t].fn \in Accessors
    BY <1>1, <1>2 DEF ThreadInv, InControl
  <2>2. MpxOn(ctx[t]) => out[t] = Abstract!Shown(call[t].fn, Presented(ctx[t])[Reg(t)])
    BY <1>1, <1>2, <2>1 DEF ThreadInv, InReturn, Presented
  <2>3. out[t] \in Wide
    BY DEF TypeOK
  <2> QED  BY <1>1, <1>2, <2>1, <2>2, <2>3, BusyInLibrary, ReadMaps
<1>3. CASE link[t] # "app"
  BY <1>1, <1>3, NestedReturnMaps
<1> QED  BY <1>2, <1>3

LEMMA CallAccessorMaps ==
  ASSUME TypeOK, NEW t \in Threads, ThreadInv(t), LibraryStep(t),
         setbndl(t) \/ setbndu(t)
  PROVE  UNCHANGED Abstract!storeVars
<1>1. ctx' = ctx /\ UNCHANGED <<platform, alive, call>>
  BY AccessorKeepsContext
<1>2. pc'[t] \in {"getbndl", "getbndu"}
  BY DEF setbndl, setbndu, CallAccessor, TypeOK
<1> QED  BY <1>1, <1>2, BusyInLibrary, StutterMaps DEF Busy

LEMMA MutatorMaps ==
  ASSUME TypeOK, NEW t \in Threads, ThreadInv(t), LibraryStep(t),
         setbndl_bndmk(t) \/ setbndu_bndmk(t) \/ setbnd(t) \/ qsetbndl(t)
  PROVE  Abstract!Write(t) \/ Abstract!Reject(t)
<1>1. /\ Busy(t)
      /\ Val(t).lo \in Word /\ Val(t).hi \in Word /\ out[t].lo \in Word
  BY BusyInLibrary DEF TypeOK, Call, Wide, Val
<1>2. \A a, b \in Word : Minus(a, b) \in Word
  BY MinusInWord, WordIsInt
<1>3. \A a, b \in Word : Plus(b, Minus(a, b)) = a
  BY PlusMinus
<1>4. link[t] = "app"
  BY DEF ThreadInv, InControl, Accessors, setbndl_bndmk, setbndu_bndmk, setbnd, qsetbndl
<1>5. MpxOn(ctx[t]) /\ Reg(t) \in BndRegs =>
        /\ pc[t] = "setbndl_bndmk" => out[t].lo = Presented(ctx[t])[Reg(t)].upper
        /\ pc[t] = "setbndu_bndmk" => out[t].lo = Presented(ctx[t])[Reg(t)].lower
  BY DEF ThreadInv, InReturn, Presented
<1> DEFINE Half(fn, v) == Abstract!Written(fn, Presented(ctx[t])[Reg(t)], v)
<1>6. Reg(t) \in BndRegs =>
        /\ Half("setbndl", Val(t)) =
             [lower |-> Val(t).lo, upper |-> Presented(ctx[t])[Reg(t)].upper]
        /\ Half("setbndu", Val(t)) =
             [lower |-> Presented(ctx[t])[Reg(t)].lower, upper |-> Val(t).lo]
        /\ Half("setbnd", Val(t)) = [lower |-> Val(t).lo, upper |-> Val(t).hi]
        /\ Half("qsetbndl", Val(t)) = [lower |-> Val(t).lo, upper |-> Val(t).lo]
  BY DEF Abstract!Written, Presented
<1>7. CASE setbndl_bndmk(t)
  <2> DEFINE upper == Minus(out[t].lo, Val(t).lo)
  <2>1. /\ pc[t] = "setbndl_bndmk" /\ call[t].fn = "setbndl"
        /\ BndmkOrComplain(t, Val(t).lo, upper)
    BY <1>7 DEF setbndl_bndmk, ThreadInv, InControl
  <2>2. upper \in Word /\ Plus(Val(t).lo, upper) = out[t].lo
    BY <1>1, <1>2, <1>3
  <2> HIDE DEF upper, Half
  <2>3. MpxOn(ctx[t]) /\ Reg(t) \in BndRegs =>
          [lower |-> Val(t).lo, upper |-> Plus(Val(t).lo, upper)] = Half(call[t].fn, Val(t))
    BY <1>5, <1>6, <2>1, <2>2
  <2> QED  BY <1>1, <1>4, <2>1, <2>2, <2>3, WriteMaps DEF Half, Mutators
<1>8. CASE setbndu_bndmk(t)
  <2> DEFINE index == Minus(Val(t).lo, out[t].lo)
  <2>1. /\ pc[t] = "setbndu_bndmk" /\ call[t].fn = "setbndu"
        /\ BndmkOrComplain(t, out[t].lo, index)
    BY <1>8 DEF setbndu_bndmk, ThreadInv, InControl
  <2>2. index \in Word /\ Plus(out[t].lo, index) = Val(t).lo
    BY <1>1, <1>2, <1>3
  <2> HIDE DEF index, Half
  <2>3. MpxOn(ctx[t]) /\ Reg(t) \in BndRegs =>
          [lower |-> out[t].lo, upper |-> Plus(out[t].lo, index)] = Half(call[t].fn, Val(t))
    BY <1>5, <1>6, <2>1, <2>2
  <2> QED  BY <1>1, <1>4, <2>1, <2>2, <2>3, WriteMaps DEF Half, Mutators
<1>9. CASE setbnd(t)
  <2> DEFINE index == Minus(Val(t).hi, Val(t).lo)
  <2>1. /\ call[t].fn = "setbnd"
        /\ BndmkOrComplain(t, Val(t).lo, index)
    BY <1>9 DEF setbnd, ThreadInv, InControl, Mutators, ShiftDown64, XorLOWER
  <2>2. index \in Word /\ Plus(Val(t).lo, index) = Val(t).hi
    BY <1>1, <1>2, <1>3
  <2> HIDE DEF index, Half
  <2>3. Reg(t) \in BndRegs =>
          [lower |-> Val(t).lo, upper |-> Plus(Val(t).lo, index)] = Half(call[t].fn, Val(t))
    BY <1>6, <2>1, <2>2
  <2> QED  BY <1>1, <1>4, <2>1, <2>2, <2>3, WriteMaps DEF Half, Mutators
<1>10. CASE qsetbndl(t)
  <2>1. /\ call[t].fn = "qsetbndl"
        /\ BndmkOrComplain(t, Val(t).lo, 0)
    BY <1>10 DEF qsetbndl, ThreadInv, InControl, Mutators
  <2>2. Plus(Val(t).lo, 0) = Val(t).lo
    BY <1>1, MAssumption DEF Plus, Word
  <2> HIDE DEF Half
  <2>3. Reg(t) \in BndRegs =>
          [lower |-> Val(t).lo, upper |-> Plus(Val(t).lo, 0)] = Half(call[t].fn, Val(t))
    BY <1>6, <2>1, <2>2
  <2> QED  BY <1>1, <1>4, <2>1, <2>3, ZeroInWord, WriteMaps DEF Half, Mutators
<1> QED  BY <1>7, <1>8, <1>9, <1>10

LEMMA FaultMaps ==
  ASSUME TypeOK, NEW t \in Threads, Busy(t), Fault, check_mpx_support(platform),
         call[t].fn \in RuntimeFunctions
  PROVE  Abstract!Die(t)
<1>1. /\ alive' = FALSE /\ call' = call /\ Status' = Status /\ Reply' = Reply
      /\ On' = On /\ Store' = Store
      /\ check_mpx_support(platform)' = check_mpx_support(platform)
  BY DEF Fault, Status, Reply, On, Store, Busy, check_mpx_support
<1> QED  BY <1>1 DEF Abstract!Die, Abstract!Switches, Status, RuntimeFunctions

LEMMA PresentedInitContext == Presented(InitContext) = Abstract!Fresh
<1>1. Complement(0) = M - 1
  BY MAssumption DEF Complement
<1> QED  BY <1>1 DEF Presented, InitContext, InitBounds, Abstract!Fresh

LEMMA RestoreNothingMaps ==
  ASSUME TypeOK, NEW t \in Threads, ThreadInv(t), ThreadInv(t)', LibraryStep(t),
         check_mpx_support(platform),
         \/ pc[t] = "process_specific_init" /\ RestoreNothing(t, "enable_mpx")
         \/ pc[t] = "process_specific_finish" /\ RestoreNothing(t, "disable_mpx")
  PROVE  Abstract!Reset(t) \/ Abstract!Die(t)
<1>1. call[t].fn \in RuntimeFunctions /\ Busy(t)
  BY DEF ThreadInv, InControl, RuntimeFunctions, Busy
<1>2. CASE Fault
  BY <1>1, <1>2, FaultMaps
<1>3. CASE ~Fault
  <2>1. /\ UNCHANGED <<platform, alive, call, out>>
        /\ pc'[t] \in {"enable_mpx", "disable_mpx"}
        /\ \A u \in Threads : u # t => pc'[u] = pc[u] /\ ctx'[u] = ctx[u]
    BY <1>3 DEF RestoreNothing, TypeOK
  <2>2. ctx'[t] = InitContext
    BY <2>1 DEF ThreadInv, BetweenRestores
  <2>3. Status' = Status /\ Reply' = Reply /\ Status[t] = "busy"
    BY <1>1, <2>1 DEF Status, Reply, Busy
  <2>4. On' = [On EXCEPT ![t] = FALSE]
    BY <2>1, <2>2, OffInitContext DEF On
  <2>5. Store' = [Store EXCEPT ![t] = Abstract!Fresh]
    BY <2>1, <2>2, PresentedInitContext DEF Store
  <2>6. check_mpx_support(platform)' = check_mpx_support(platform)
    BY <2>1 DEF check_mpx_support
  <2> QED  BY <1>1, <2>1, <2>3, <2>4, <2>5, <2>6
           DEF Abstract!Reset, Abstract!Switches, RuntimeFunctions
<1> QED  BY <1>2, <1>3

LEMMA RestoreCfgMaps ==
  ASSUME TypeOK, NEW t \in Threads, ThreadInv(t), LibraryStep(t),
         enable_mpx(t) \/ disable_mpx(t)
  PROVE  Abstract!Switch(t) \/ Abstract!Die(t)
<1>1. /\ pc[t] = "enable_mpx" \/ pc[t] = "disable_mpx"
      /\ call[t].fn = IF pc[t] = "enable_mpx"
                      THEN "process_specific_init" ELSE "process_specific_finish"
      /\ ctx[t] = InitContext /\ check_mpx_support(platform)
      /\ link[t] = "app" /\ Busy(t)
  BY BusyInLibrary DEF enable_mpx, disable_mpx, ThreadInv, InControl, BetweenRestores,
     Accessors
<1>2. CASE Fault
  BY <1>1, <1>2, FaultMaps DEF RuntimeFunctions
<1>3. CASE ~Fault
  <2> DEFINE cfg == IF pc[t] = "enable_mpx" THEN CfgBits ELSE {}
             c == [bnd |-> InitContext.bnd, cfg |-> cfg]
  <2>1. /\ ~XrstorFaults(platform, {"BNDCSR"})
        /\ ReturnBool(t, TRUE, xrstor_state(t, {"BNDCSR"}, {"BNDCSR"}, cfg))
    BY <1>3, CfgRegType DEF enable_mpx, disable_mpx, RestoreCfg
  <2>2. platform.xcr0 = MpxComponents
    BY <2>1, Xcr0 DEF XrstorFaults
  <2>3. xrstor_state(t, {"BNDCSR"}, {"BNDCSR"}, cfg) = c
    <3> HIDE DEF cfg
    <3> QED  BY <1>1, <2>2 DEF xrstor_state, Xrstor, MpxComponents
  <2>4. Return(t, [lo |-> 1, hi |-> 0], c)
    BY <2>1, <2>3 DEF ReturnBool
  <2>5. Made(c)
    <3>1. pc[t] = "disable_mpx" => c = InitContext
      BY DEF InitContext
    <3> QED  BY <1>1, <2>2, <3>1 DEF Made
  <2>7. Presented(c) = Abstract!Fresh
    BY PresentedInitContext DEF Presented, InitContext
  <2> HIDE DEF c, cfg
  <2>8. /\ Abstract!Answer(t, [lo |-> 1, hi |-> 0])
        /\ On' = [On EXCEPT ![t] = MpxOn(c)]
        /\ Store' = [Store EXCEPT ![t] = Presented(c)]
    BY <1>1, <2>4, <2>5, ReturnMaps
  <2>9. On[t] = FALSE /\ Store[t] = Abstract!Fresh
    BY <1>1, OffInitContext, PresentedInitContext DEF On, Store
  <2>10. Store' = Store
    BY <2>7, <2>8, <2>9 DEF Store
  <2>11. CASE pc[t] = "enable_mpx"
    <3>1. MpxOn(c) = TRUE
      BY <2>11 DEF MpxOn, c, cfg, CfgBits
    <3>2. On' = [On EXCEPT ![t] = TRUE]
      BY <2>8, <3>1
    <3> QED  BY <1>1, <2>8, <2>9, <2>10, <2>11, <3>2
             DEF Abstract!Switch, Abstract!True
  <2>12. CASE pc[t] = "disable_mpx"
    <3>1. MpxOn(c) = FALSE
      BY <2>12 DEF MpxOn, c, cfg
    <3>2. On' = On
      BY <2>8, <2>9, <3>1 DEF On
    <3> QED  BY <1>1, <2>8, <2>9, <2>10, <2>12, <3>2
             DEF Abstract!Switch, Abstract!True
  <2> QED  BY <1>1, <2>11, <2>12
<1> QED  BY <1>2, <1>3

LEMMA UnsupportedMaps ==
  ASSUME TypeOK, NEW t \in Threads, ThreadInv(t), LibraryStep(t), Unsupported(t),
         pc[t] \in RuntimeFunctions
  PROVE  Abstract!Refuse(t)
<1>1. ~check_mpx_support(platform) /\ Return(t, Zero, ctx[t])
  BY DEF Unsupported, ReturnBool, Zero
<1>2. link[t] = "app" /\ call[t].fn \in RuntimeFunctions
  BY DEF ThreadInv, InControl, RuntimeFunctions, Accessors
<1>3. Abstract!Answer(t, Zero) /\ UNCHANGED <<On, Store>>
  BY <1>1, <1>2, BusyInLibrary, ReturnMaps, SameContextMaps, MadeContext
<1> QED  BY <1>1, <1>2, <1>3
         DEF Abstract!Refuse, Abstract!Switches, Abstract!NoReply, Zero, RuntimeFunctions

\* Which operation of the store a step of the library is.
LEMMA LibraryActs ==
  ASSUME TypeOK, NEW t \in Threads, ThreadInv(t), ThreadInv(t)', LibraryStep(t)
  PROVE  \/ UNCHANGED Abstract!storeVars
         \/ Abstract!Read(t) \/ Abstract!Write(t) \/ Abstract!Reject(t)
         \/ Abstract!Reset(t) \/ Abstract!Switch(t) \/ Abstract!Refuse(t) \/ Abstract!Die(t)
<1>1. CASE SimplexStep(t)
  BY <1>1, AccessorMaps, SanitizeMaps, CallAccessorMaps, MutatorMaps DEF SimplexStep
<1>2. CASE MpxrtStep(t)
  BY <1>2, RestoreNothingMaps, RestoreCfgMaps, UnsupportedMaps
     DEF MpxrtStep, process_specific_init, process_specific_finish, RuntimeFunctions
<1> QED  BY <1>1, <1>2 DEF LibraryStep

LEMMA LibraryMaps ==
  ASSUME TypeOK, NEW t \in Threads, ThreadInv(t), ThreadInv(t)', LibraryStep(t)
  PROVE  [Abstract!StoreNext]_(Abstract!storeVars)
<1>1. alive
  BY DEF LibraryStep
<1> QED  BY <1>1, LibraryActs DEF Abstract!StoreNext

-----------------------------------------------------------------------------
(* The client's steps, and the theorem.                                      *)

LEMMA ClientMaps ==
  ASSUME TypeOK, ProcessInv, NEW t \in Threads, ClientStep(t)
  PROVE  [Abstract!StoreNext]_(Abstract!storeVars)
<1>1. alive /\ ThreadInv(t)
  BY DEF ClientStep, ProcessInv
<1>2. CASE Invoke(t)
  <2>1. NearBranch(ctx[t]) = ctx[t]
    BY <1>1, MadeContext, NearBranchKeeps DEF Made
  <2>2. PICK q \in Requests :
          /\ call' = [call EXCEPT ![t] = q] /\ pc' = [pc EXCEPT ![t] = q.fn]
    BY <1>2 DEF Invoke
  <2>3. q.fn \notin {"unborn", "idle"}
    BY DEF Requests, NoCall, Functions, Mutators, Accessors, RuntimeFunctions
  <2>4. /\ ctx' = ctx /\ platform' = platform /\ alive' = alive
        /\ out' = [out EXCEPT ![t] = Zero] /\ pc[t] = "idle"
    BY <1>2, <2>1 DEF Invoke, TypeOK
  <2>5. Status[t] = "idle" /\ Status' = [Status EXCEPT ![t] = "busy"]
    BY <2>2, <2>3, <2>4 DEF Status, Busy, TypeOK
  <2>6. Reply' = [Reply EXCEPT ![t] = Zero]
    BY <2>2, <2>3, <2>4 DEF Reply, Busy, TypeOK
  <2>7. On' = On /\ Store' = Store
    BY <2>4 DEF On, Store
  <2>8. check_mpx_support(platform)' = check_mpx_support(platform)
    BY <2>4 DEF check_mpx_support
  <2>9. Abstract!Invoke(t)
    BY <2>2, <2>4, <2>5, <2>6, <2>7, <2>8 DEF Abstract!Invoke, Abstract!NoReply, Zero
  <2> QED  BY <1>1, <2>9 DEF Abstract!StoreNext
<1>3. CASE UseStack(t)
  BY <1>3 DEF UseStack, Abstract!storeVars, Status, Reply, On, Store, Busy,
     check_mpx_support
<1>4. ASSUME NEW u \in Threads, Spawn(t, u)
      PROVE  Abstract!Fork(t, u)
  <2>1. /\ pc[t] = "idle" /\ pc[u] = "unborn"
        /\ pc' = [pc EXCEPT ![u] = "idle"] /\ ctx' = [ctx EXCEPT ![u] = ctx[t]]
        /\ UNCHANGED <<platform, alive, slot, call, link, out>>
    BY <1>4 DEF Spawn
  <2>2. Status[t] = "idle" /\ Status[u] = "unborn"
        /\ Status' = [Status EXCEPT ![u] = "idle"]
    BY <2>1 DEF Status, Busy, TypeOK
  <2>3. Reply' = Reply
    BY <2>1 DEF Reply, Busy, TypeOK
  <2>4. On' = [On EXCEPT ![u] = On[t]] /\ Store' = [Store EXCEPT ![u] = Store[t]]
    BY <2>1 DEF On, Store, TypeOK
  <2>5. check_mpx_support(platform)' = check_mpx_support(platform)
    BY <2>1 DEF check_mpx_support
  <2> QED  BY <2>1, <2>2, <2>3, <2>4, <2>5 DEF Abstract!Fork
<1> QED  BY <1>1, <1>2, <1>3, <1>4 DEF ClientStep, Abstract!StoreNext

LEMMA InitMaps == Init => Abstract!StoreInit
<1> SUFFICES ASSUME Init
             PROVE  Abstract!StoreInit
  OBVIOUS
<1>1. /\ Status = [t \in Threads |-> IF t = MainThread THEN "idle" ELSE "unborn"]
      /\ Reply = [t \in Threads |-> Zero]
  BY DEF Init, Status, Reply, Busy
<1>2. On = [t \in Threads |-> FALSE] /\ Store = [t \in Threads |-> Abstract!Fresh]
  BY OffInitContext, PresentedInitContext DEF Init, On, Store
<1>3. check_mpx_support(platform) \in BOOLEAN
  BY DEF check_mpx_support
<1> QED  BY <1>1, <1>2, <1>3 DEF Init, Abstract!StoreInit, Abstract!NoReply, Zero

(* Every call of the library is one atomic operation on the store of the      *)
(* thread that makes it, between its invocation and its return.              *)
THEOREM Refinement == Spec => ImplementsRegStore
<1>1. ASSUME TypeOK, ProcessInv, TypeOK', ProcessInv', [Next]_vars
      PROVE  [Abstract!StoreNext]_(Abstract!storeVars)
  <2>1. CASE UNCHANGED vars
    BY <2>1 DEF vars, Abstract!storeVars, Status, Reply, On, Store, Busy,
       check_mpx_support
  <2>2. ASSUME NEW t \in Threads, LibraryStep(t)
        PROVE  [Abstract!StoreNext]_(Abstract!storeVars)
    <3>1. ThreadInv(t) /\ ThreadInv(t)'
      BY <1>1 DEF ProcessInv
    <3> QED  BY <1>1, <2>2, <3>1, LibraryMaps
  <2>3. ASSUME NEW t \in Threads, ClientStep(t)
        PROVE  [Abstract!StoreNext]_(Abstract!storeVars)
    BY <1>1, <2>3, ClientMaps
  <2> QED  BY <1>1, <2>1, <2>2, <2>3 DEF Next
<1> QED  BY <1>1, InitMaps, Invariant, PTL DEF Spec, ImplementsRegStore, Abstract!StoreSpec
=============================================================================
