--------------------------- MODULE ThreadContext ---------------------------
(***************************************************************************)
(* The state of a process that links the library: for each thread its      *)
(* program counter in the library, its MPX context, the stack bytes below  *)
(* its stack pointer that the accessors spill to, its call and its return  *)
(* registers.  The modules of the library's two source files share it.     *)
(***************************************************************************)
EXTENDS Cpuid

CONSTANTS Threads,      \* threads the process may have
          MainThread,   \* the one it starts with
          OtherReg,     \* a bndreg_t argument outside the enumeration
          Junk          \* words that the client's own frames leave on the stack

ASSUME ThreadsAssumption == MainThread \in Threads
ASSUME OtherRegAssumption == OtherReg \notin BndRegs
ASSUME JunkAssumption == Junk \subseteq Word

VARIABLES platform, \* the machine; never changes
          alive,    \* FALSE once a fault has killed the process
          pc,       \* where each thread is
          ctx,      \* its MPX context
          slot,     \* its 16 bytes at -0x80(%rsp), for each depth of call
          call,     \* its last call of the library
          link,     \* where the accessor it runs returns to
          out       \* rax and rdx

vars == <<platform, alive, pc, ctx, slot, call, link, out>>

Accessors == {"getbndl", "getbndu", "getbnd", "qgetbndl"}
Mutators == {"setbndl", "setbndu", "setbnd", "qsetbndl"}
RuntimeFunctions == {"process_specific_init", "process_specific_finish"}
Functions == Accessors \cup Mutators \cup RuntimeFunctions

\* Control points within a function that follow a nested call or a spill.
InnerPoints == {"sanitize", "setbndl_bndmk", "setbndu_bndmk", "enable_mpx", "disable_mpx"}

Wide == [lo : Word, hi : Word]
Zero == [lo |-> 0, hi |-> 0]
Call == [fn : Functions \cup {"none"}, reg : BndRegs \cup {OtherReg}, val : Wide]
NoCall == [fn |-> "none", reg |-> OtherReg, val |-> Zero]

\* A slot remembers which function's spill it holds: "default" is the default
\* label of an accessor's switch, "none" says it holds no register's image.
Spillers == Accessors \cup {"default", "none"}
Slot == [lb : Word, ub : Word, by : Spillers]
Blank == [lb |-> 0, ub |-> 0, by |-> "none"]
JunkSlots == {[lb |-> a, ub |-> b, by |-> "none"] : a \in Junk, b \in Junk}

\* An accessor called by the client and one called by a mutator run at
\* different depths, hence spill to different bytes.
Depths == {"direct", "nested"}
Depth(t) == IF link[t] = "app" THEN "direct" ELSE "nested"
ReturnPoint == [app |-> "idle", setbndl |-> "setbndl_bndmk", setbndu |-> "setbndu_bndmk"]

TypeOK ==
  /\ platform \in Platforms
  /\ alive \in BOOLEAN
  /\ pc \in [Threads -> Functions \cup InnerPoints \cup {"unborn", "idle"}]
  /\ ctx \in [Threads -> Context]
  /\ slot \in [Threads -> [Depths -> Slot]]
  /\ call \in [Threads -> Call]
  /\ link \in [Threads -> {"app", "setbndl", "setbndu"}]
  /\ out \in [Threads -> Wide]

Init ==
  /\ platform \in Platforms
  /\ alive = TRUE
  /\ pc = [t \in Threads |-> IF t = MainThread THEN "idle" ELSE "unborn"]
  /\ ctx = [t \in Threads |-> InitContext]
  /\ slot = [t \in Threads |-> [d \in Depths |-> Blank]]
  /\ call = [t \in Threads |-> NoCall]
  /\ link = [t \in Threads |-> "app"]
  /\ out = [t \in Threads |-> Zero]

\* Frames that come and go on t's stack leave in each slot what it held or one of S.
Overlay(t, S) ==
  \E d \in S \cup {slot[t]["direct"]}, n \in S \cup {slot[t]["nested"]} :
    slot' = [slot EXCEPT ![t] = [x \in Depths |-> IF x = "direct" THEN d ELSE n]]

\* ret, with v in rdx:rax and c the context the function leaves.
Return(t, v, c) ==
  /\ out' = [out EXCEPT ![t] = v]
  /\ ctx' = [ctx EXCEPT ![t] = NearBranch(c)]
  /\ pc' = [pc EXCEPT ![t] = ReturnPoint[link[t]]]
  /\ link' = [link EXCEPT ![t] = "app"]
  /\ UNCHANGED <<platform, alive, call>>
=============================================================================
