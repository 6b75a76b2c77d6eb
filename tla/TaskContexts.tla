---------------------------- MODULE TaskContexts ---------------------------
(***************************************************************************)
(* The isolation of tasks: every task owns an MPX context that only its    *)
(* own steps change, the steps of the kernel module that it runs included. *)
(* There are no processors here.  This is what the kernel keeps up for any *)
(* code of this kind, and less than the module's README says, which speaks *)
(* of all processes (LoadingEnablesAll of Kmod).                           *)
(***************************************************************************)
EXTENDS Mpx

CONSTANTS Tasks, FirstTask

VARIABLES supported, \* the check passes on this machine
          enables,   \* its kernel enables MPX
          module,    \* the state of the kernel module
          pc,        \* where each task is
          own        \* the context it owns

ownVars == <<supported, enables, module, pc, own>>

Enabled == [InitContext EXCEPT !.cfg = CfgBits]

OwnInit ==
  /\ supported \in BOOLEAN
  /\ enables \in BOOLEAN
  /\ module = "absent"
  /\ pc = [t \in Tasks |-> IF t = FirstTask THEN "user" ELSE "unborn"]
  /\ own = [t \in Tasks |-> InitContext]

Goto(t, point) == pc' = [pc EXCEPT ![t] = point] /\ UNCHANGED <<supported, enables>>
Becomes(t, c) == own' = [own EXCEPT ![t] = c]
\* A task that is gone owns nothing; its place in Tasks may be taken again.
Gone(t) == Goto(t, "unborn") /\ Becomes(t, InitContext) /\ UNCHANGED module

\* A task in user mode: a store to a register, the library's functions, execve.
UserStep(t) ==
  /\ pc[t] = "user"
  /\ \/ \E r \in BndRegs, w \in Word : Becomes(t, Bndmk(own[t], r, w, 0))
     \/ enables /\ Becomes(t, Enabled)
     \/ Becomes(t, InitContext)
  /\ UNCHANGED <<supported, enables, module, pc>>

Clone(t, u) ==
  /\ pc[t] = "user" /\ pc[u] = "unborn"
  /\ Goto(u, "user")
  /\ Becomes(u, own[t])
  /\ UNCHANGED module

Leave(t) == pc[t] = "user" /\ Gone(t)

\* A task starts to load the module or to unload it.
Begin(t, from, during, point) ==
  /\ pc[t] = "user" /\ module = from
  /\ module' = during
  /\ Goto(t, point)
  /\ UNCHANGED own

\* The module's function runs: it finds the machine unsupported and changes no
\* context, or it clears the task's own and then gives it the one meant for it.
\* Whether the module stays where the machine is unsupported is not said here.
Run(t, point, second, after, given) ==
  \/ /\ pc[t] = point /\ ~supported
     /\ module' \in {after, "absent"}
     /\ Goto(t, "user")
     /\ UNCHANGED own
  \/ /\ pc[t] = point /\ supported
     /\ Goto(t, second)
     /\ Becomes(t, InitContext)
     /\ UNCHANGED module
  \/ /\ pc[t] = second
     /\ module' = after
     /\ Goto(t, "user")
     /\ Becomes(t, given)
  \/ pc[t] \in {point, second} /\ supported /\ ~enables /\ Gone(t)

OwnNext ==
  \E t \in Tasks :
    \/ UserStep(t) \/ Leave(t)
    \/ \E u \in Tasks : Clone(t, u)
    \/ Begin(t, "absent", "coming", "enable_init")
    \/ Begin(t, "live", "going", "enable_cleanup")
    \/ Run(t, "enable_init", "enable_mpx", "live", Enabled)
    \/ Run(t, "enable_cleanup", "disable_mpx", "absent", InitContext)

OwnSpec == OwnInit /\ [][OwnNext]_ownVars
=============================================================================
