------------------------------ MODULE Simplex ------------------------------
(***************************************************************************)
(* simplex.c: the accessors and mutators of the bounds registers.  An      *)
(* action is one function run by thread t, or the part of one that ends    *)
(* where another thread, or the client's stack, could see the difference:  *)
(* after the spill, and around the accessor that a mutator calls.          *)
(***************************************************************************)
EXTENDS ThreadContext

Reg(t) == call[t].reg
Val(t) == call[t].val

\* 128-bit arithmetic on the two halves, as getbnd and setbnd use it.
Widen(a) == [lo |-> a, hi |-> 0]
Not128(w) == [lo |-> Complement(w.lo), hi |-> Complement(w.hi)]
ShiftUp64(w) == [lo |-> 0, hi |-> w.lo]
ShiftDown64(w) == [lo |-> w.hi, hi |-> 0]
XorLOWER(w) == [lo |-> Complement(w.lo), hi |-> w.hi]

\* The slot after bndmov %bndN,-0x80(%rsp), which is a NOP while MPX is off: the
\* accessor then loads the bytes that were there.
SlotOf(b, fn) == [lb |-> b.lb, ub |-> b.ub, by |-> fn]
Bndmov(t, fn) ==
  IF MpxOn(ctx[t]) THEN SlotOf(ctx[t].bnd[Reg(t)], fn) ELSE slot[t][Depth(t)]

Spill(t, s) == slot' = [slot EXCEPT ![t][Depth(t)] = s]

\* The value loaded from a slot, before the slot is cleared.
LoadAndSanitize(t, v) ==
  /\ out' = [out EXCEPT ![t] = v]
  /\ pc' = [pc EXCEPT ![t] = "sanitize"]
  /\ UNCHANGED <<platform, alive, ctx, call, link>>

\* The default label of an accessor.  The spills are not volatile and declare no
\* clobber, so the compiler may run one before the switch has chosen a label
\* (gcc does at -O2): the slot may hold any register, never cleared.  The frames
\* of fprintf may cover it, or not.
InvalidRegister(t) ==
  /\ Reg(t) \notin BndRegs
  /\ Overlay(t, JunkSlots \cup
                (IF MpxOn(ctx[t])
                 THEN {SlotOf(ctx[t].bnd[r], "default") : r \in BndRegs} ELSE {}))
  /\ Return(t, Zero, ctx[t])

getbndl(t) ==
  /\ pc[t] = "getbndl"
  /\ \/ InvalidRegister(t)
     \/ /\ Reg(t) \in BndRegs
        /\ LET s == Bndmov(t, "getbndl")
           IN  Spill(t, s) /\ LoadAndSanitize(t, Widen(s.lb))

getbndu(t) ==
  /\ pc[t] = "getbndu"
  /\ \/ InvalidRegister(t)
     \/ /\ Reg(t) \in BndRegs
        /\ LET s == Bndmov(t, "getbndu")
           IN  Spill(t, s) /\ LoadAndSanitize(t, Widen(Complement(s.ub)))

\* A plausible bug: the upper half is returned as it is stored.
StoredUpperGetbnd(t) ==
  /\ pc[t] = "getbnd"
  /\ \/ InvalidRegister(t)
     \/ /\ Reg(t) \in BndRegs
        /\ LET s == Bndmov(t, "getbnd")
           IN  Spill(t, s) /\ LoadAndSanitize(t, [lo |-> s.lb, hi |-> s.ub])

getbnd(t) ==
  /\ pc[t] = "getbnd"
  /\ \/ InvalidRegister(t)
     \/ /\ Reg(t) \in BndRegs
        /\ LET s == Bndmov(t, "getbnd")
               upper == ShiftUp64(Not128(Widen(s.ub)))
           IN  Spill(t, s) /\ LoadAndSanitize(t, [upper EXCEPT !.lo = s.lb])

qgetbndl(t) ==
  /\ pc[t] = "qgetbndl"
  /\ \/ InvalidRegister(t)
     \/ /\ Reg(t) \in BndRegs
        /\ LET s == Bndmov(t, "qgetbndl")
           IN  Spill(t, s) /\ Return(t, Widen(s.lb), ctx[t])

\* A plausible bug: the accessor returns without clearing what it spilled.
ForgetToSanitize(t) ==
  /\ pc[t] = "sanitize"
  /\ Return(t, out[t], ctx[t])
  /\ UNCHANGED slot

\* andq $0 on both words of the slot, then ret.
sanitize(t) ==
  /\ pc[t] = "sanitize"
  /\ Spill(t, Blank)
  /\ Return(t, out[t], ctx[t])

\* A mutator calls the accessor of the half it keeps.
CallAccessor(t, mutator, accessor) ==
  /\ pc[t] = mutator
  /\ pc' = [pc EXCEPT ![t] = accessor]
  /\ link' = [link EXCEPT ![t] = mutator]
  /\ ctx' = [ctx EXCEPT ![t] = NearBranch(ctx[t])]
  /\ UNCHANGED <<platform, alive, slot, call, out>>

\* A plausible bug: the mutator calls itself.
SetbndlCallsItself(t) == CallAccessor(t, "setbndl", "setbndl")

setbndl(t) == CallAccessor(t, "setbndl", "getbndu")

\* A plausible bug: the accessor of the wrong half.
SetbnduReadsUpper(t) == CallAccessor(t, "setbndu", "getbndu")

setbndu(t) == CallAccessor(t, "setbndu", "getbndl")

\* The switch that ends every mutator: bndmk, or the message of its default label.
BndmkOrComplain(t, base, index) ==
  \/ /\ Reg(t) \in BndRegs
     /\ Return(t, Zero, Bndmk(ctx[t], Reg(t), base, index))
     /\ UNCHANGED slot
  \/ /\ Reg(t) \notin BndRegs
     /\ Overlay(t, JunkSlots)
     /\ Return(t, Zero, ctx[t])

\* A plausible bug: the upper bound is not adjusted for base+index addressing.
UnadjustedSetbndl(t) ==
  /\ pc[t] = "setbndl_bndmk"
  /\ BndmkOrComplain(t, Val(t).lo, out[t].lo)

setbndl_bndmk(t) ==
  /\ pc[t] = "setbndl_bndmk"
  /\ LET upper == Minus(out[t].lo, Val(t).lo)
     IN  BndmkOrComplain(t, Val(t).lo, upper)

setbndu_bndmk(t) ==
  /\ pc[t] = "setbndu_bndmk"
  /\ LET lower == out[t].lo
     IN  BndmkOrComplain(t, lower, Minus(Val(t).lo, lower))

setbnd(t) ==
  /\ pc[t] = "setbnd"
  /\ LET lower == Val(t).lo
         upper == ShiftDown64(XorLOWER(Val(t))).lo
     IN  BndmkOrComplain(t, lower, Minus(upper, lower))

qsetbndl(t) ==
  /\ pc[t] = "qsetbndl"
  /\ BndmkOrComplain(t, Val(t).lo, 0)

SimplexStep(t) ==
  \/ getbndl(t) \/ getbndu(t) \/ getbnd(t) \/ qgetbndl(t) \/ sanitize(t)
  \/ setbndl(t) \/ setbndu(t) \/ setbnd(t) \/ qsetbndl(t)
  \/ setbndl_bndmk(t) \/ setbndu_bndmk(t)
=============================================================================
