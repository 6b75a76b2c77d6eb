--------------------------- MODULE SimplexProcess --------------------------
(***************************************************************************)
(* A process that uses the library: its threads call the functions of      *)
(* simplex.h in any order with any arguments, use their stacks, and start  *)
(* threads; the kernel schedules them.                                     *)
(***************************************************************************)
EXTENDS Simplex, Mpxrt

CONSTANTS Calls,    \* the functions that the client calls
          RegArgs   \* the registers that it passes to them

ASSUME CallsAssumption == Calls \subseteq Functions /\ RegArgs \subseteq BndRegs \cup {OtherReg}

\* A client calls any declared function.  The enumeration does not stop it from
\* passing another register; a function without arguments passes none.
Requests ==
  {[fn |-> f, reg |-> r, val |-> Zero] :
     f \in Calls \cap Accessors, r \in RegArgs}
  \cup {[fn |-> f, reg |-> r, val |-> [lo |-> v, hi |-> 0]] :
     f \in Calls \cap {"setbndl", "setbndu", "qsetbndl"},
     r \in RegArgs, v \in Word}
  \cup {[fn |-> f, reg |-> r, val |-> v] :
     f \in Calls \cap {"setbnd"}, r \in RegArgs, v \in Wide}
  \cup {[NoCall EXCEPT !.fn = f] : f \in Calls \cap RuntimeFunctions}

Invoke(t) ==
  /\ pc[t] = "idle"
  /\ \E q \in Requests :
       /\ call' = [call EXCEPT ![t] = q]
       /\ pc' = [pc EXCEPT ![t] = q.fn]
  /\ ctx' = [ctx EXCEPT ![t] = NearBranch(ctx[t])]
  /\ out' = [out EXCEPT ![t] = Zero]
  /\ UNCHANGED <<platform, alive, slot, link>>

\* The client's own frames come and go between calls.
UseStack(t) ==
  /\ pc[t] = "idle"
  /\ Overlay(t, JunkSlots)
  /\ UNCHANGED <<platform, alive, pc, ctx, call, link, out>>

\* clone() copies the creator's extended state to the new thread.
Spawn(t, u) ==
  /\ pc[t] = "idle"
  /\ pc[u] = "unborn"
  /\ pc' = [pc EXCEPT ![u] = "idle"]
  /\ ctx' = [ctx EXCEPT ![u] = ctx[t]]
  /\ UNCHANGED <<platform, alive, slot, call, link, out>>

LibraryStep(t) == alive /\ (SimplexStep(t) \/ MpxrtStep(t))

ClientStep(t) ==
  alive /\ (Invoke(t) \/ UseStack(t) \/ \E u \in Threads : Spawn(t, u))

Next == \E t \in Threads : LibraryStep(t) \/ ClientStep(t)

Spec == Init /\ [][Next]_vars

\* The kernel preempts threads and never starves one that can run.
FairSpec == Spec /\ \A t \in Threads : WF_vars(LibraryStep(t))

-----------------------------------------------------------------------------
Busy(t) == pc[t] \notin {"unborn", "idle"}

\* The state as the client of the library sees it.
Presented(c) ==
  [r \in BndRegs |-> [lower |-> c.bnd[r].lb, upper |-> Complement(c.bnd[r].ub)]]

Status == [t \in Threads |-> IF Busy(t) THEN "busy" ELSE pc[t]]
Reply == [t \in Threads |-> IF Busy(t) THEN Zero ELSE out[t]]
On == [t \in Threads |-> MpxOn(ctx[t])]
Store == [t \in Threads |-> Presented(ctx[t])]

Abstract == INSTANCE RegStore WITH
  Words <- Word,
  Registers <- BndRegs,
  Clients <- Threads,
  First <- MainThread,
  Requests <- Requests \cup {NoCall},
  Top <- M - 1,
  supported <- check_mpx_support(platform),
  running <- alive,
  status <- Status,
  request <- call,
  reply <- Reply,
  on <- On,
  store <- Store

(* Every call of simplex.h, whatever the stack held and whatever the other    *)
(* threads do, reads or writes exactly the halves of the register it names,  *)
(* as one step between its invocation and its return.                        *)
ImplementsRegStore == Abstract!StoreSpec

(* A mutator of one half keeps the other (the comments of setbndl and        *)
(* setbndu), although bndmk writes both and the half to keep goes through an  *)
(* accessor, the stack, and two near returns.                                *)
KeepsOtherHalf ==
  [][\A t \in Threads, r \in BndRegs :
       /\ call[t].fn = "setbndl" /\ Busy(t) =>
            ctx'[t].bnd[r].ub = ctx[t].bnd[r].ub
       /\ call[t].fn = "setbndu" /\ Busy(t) =>
            ctx'[t].bnd[r].lb = ctx[t].bnd[r].lb]_vars

(* After a call returns the stack holds no register's image, except those    *)
(* that qgetbndl, which does not clear its spill, or the default label of an  *)
(* accessor left there.                                                      *)
NoLeftoverSpill ==
  \A t \in Threads, d \in Depths :
    pc[t] = "idle" => slot[t][d].by \in {"none", "qgetbndl", "default"}

(* The stronger reading of the comments on sanitizing: only qgetbndl leaves   *)
(* an image on the stack.                                                    *)
OnlyQuickReadLeavesSpill ==
  \A t \in Threads, d \in Depths :
    pc[t] = "idle" => slot[t][d].by \in {"none", "qgetbndl"}

(* A thread without MPX holds no bounds: process_specific_finish leaves       *)
(* nothing behind that a later process_specific_init would bring back.       *)
OffMeansClean ==
  \A t \in Threads : ~MpxOn(ctx[t]) => ctx[t] = InitContext

(* What the runtime functions answer is so when they return: true from        *)
(* process_specific_init means that the thread can use the registers, and    *)
(* every other answer of the two that it cannot.                             *)
AnswersAreTrue ==
  \A t \in Threads :
    pc[t] = "idle" /\ call[t].fn \in RuntimeFunctions =>
      (MpxOn(ctx[t]) <=> call[t].fn = "process_specific_init" /\ out[t].lo = 1)

(* A fault kills the process only where CPUID passed the check although the  *)
(* kernel keeps XSAVE or the MPX state off; never where the check fails, and  *)
(* never on a machine that is ready.                                         *)
KilledOnlyWithoutKernelSupport ==
  ~alive => /\ check_mpx_support(platform)
            /\ ~platform.osxsave \/ platform.xcr0 = {}

(* Every call returns, unless the process is killed.                         *)
CallsReturn == \A t \in Threads : Busy(t) ~> (~Busy(t) \/ ~alive)

(* The comment of process_specific_init: it answers true if the process is   *)
(* ready for the library and false otherwise.  Hence no call of it ends the  *)
(* process.                                                                  *)
ReadyOrFalse == alive

(* The comment of process_specific_init: MPX is enabled for the process.      *)
(* Hence, in a client that never calls process_specific_finish, no idle       *)
(* thread is without MPX once one has been answered true.                    *)
EnabledForProcess ==
  (\E t \in Threads :
     pc[t] = "idle" /\ call[t].fn = "process_specific_init" /\ out[t].lo = 1)
  => \A u \in Threads : pc[u] = "idle" => MpxOn(ctx[u])

-----------------------------------------------------------------------------
(* The inductive invariant behind these properties, for one thread.           *)

\* A call is where its function can be, and an accessor returns to its caller.
InControl(t) ==
  /\ pc[t] = "unborn" => call[t].fn = "none" /\ out[t] = Zero
  /\ pc[t] \in Mutators \cup RuntimeFunctions => call[t].fn = pc[t]
  /\ pc[t] \in Accessors \cup {"sanitize"} \/ link[t] = "app"
  /\ link[t] = "app" =>
       /\ pc[t] \in Accessors => call[t].fn = pc[t]
       /\ pc[t] = "sanitize" => call[t].fn \in Accessors
  /\ link[t] = "setbndl" => call[t].fn = "setbndl" /\ pc[t] \in {"getbndu", "sanitize"}
  /\ link[t] = "setbndu" => call[t].fn = "setbndu" /\ pc[t] \in {"getbndl", "sanitize"}
  /\ pc[t] = "sanitize" => Reg(t) \in BndRegs
  /\ pc[t] = "setbndl_bndmk" => call[t].fn = "setbndl"
  /\ pc[t] = "setbndu_bndmk" => call[t].fn = "setbndu"
  /\ pc[t] = "enable_mpx" => call[t].fn = "process_specific_init"
  /\ pc[t] = "disable_mpx" => call[t].fn = "process_specific_finish"

\* MPX is on with BNDPRESERVE, on a machine that has passed the check, or the
\* context is the initial one.
InContext(t) ==
  \/ ctx[t] = InitContext
  \/ /\ ctx[t].cfg = CfgBits
     /\ check_mpx_support(platform)
     /\ platform.xcr0 = MpxComponents

\* Between its two XRSTORs a runtime function has the initial context.
BetweenRestores(t) ==
  pc[t] \in {"enable_mpx", "disable_mpx"} =>
    ctx[t] = InitContext /\ check_mpx_support(platform)

\* What an accessor has loaded is what its register still holds.
InReturn(t) ==
  MpxOn(ctx[t]) /\ Reg(t) \in BndRegs =>
    LET b == ctx[t].bnd[Reg(t)] IN
    /\ pc[t] = "sanitize" /\ link[t] = "app" =>
         out[t] = Abstract!Shown(call[t].fn, [lower |-> b.lb, upper |-> Complement(b.ub)])
    /\ (pc[t] = "sanitize" /\ link[t] = "setbndl") \/ pc[t] = "setbndl_bndmk" =>
         out[t].lo = Complement(b.ub)
    /\ (pc[t] = "sanitize" /\ link[t] = "setbndu") \/ pc[t] = "setbndu_bndmk" =>
         out[t].lo = b.lb

\* A spill that will be cleared is the one of the accessor about to clear it.
InSlots(t) ==
  \A d \in Depths : \/ slot[t][d].by \in {"none", "qgetbndl", "default"}
                    \/ pc[t] = "sanitize" /\ d = Depth(t)

InAnswer(t) ==
  pc[t] = "idle" /\ call[t].fn \in RuntimeFunctions =>
    (MpxOn(ctx[t]) <=> call[t].fn = "process_specific_init" /\ out[t].lo = 1)

ThreadInv(t) ==
  /\ InControl(t)
  /\ InContext(t)
  /\ BetweenRestores(t)
  /\ InReturn(t)
  /\ InSlots(t)
  /\ InAnswer(t)

ProcessInv == KilledOnlyWithoutKernelSupport /\ \A t \in Threads : ThreadInv(t)
=============================================================================
