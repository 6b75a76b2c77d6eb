------------------------------ MODULE RegStore -----------------------------
(***************************************************************************)
(* What the library promises, without the instructions it uses: every      *)
(* thread owns a store of two words per bounds register, and each call     *)
(* takes effect on its own thread's store, at once and at some moment      *)
(* between its invocation and its return.  The store keeps what is written *)
(* to it while it is on.  While it is off it holds the initial bounds,     *)
(* reads are answered with any word and writes are lost.                   *)
(***************************************************************************)
EXTENDS Integers

CONSTANTS Words,      \* values of a half of a register
          Registers,  \* the bounds registers
          Clients,    \* threads
          First,      \* the thread that exists at the start
          Requests,   \* calls a thread may make
          Top         \* the upper half of an initialised register

Halves == [lower : Words, upper : Words]
Fresh == [r \in Registers |-> [lower |-> 0, upper |-> Top]]
NoReply == [lo |-> 0, hi |-> 0]
True == [lo |-> 1, hi |-> 0]

Readers == {"getbndl", "getbndu", "getbnd", "qgetbndl"}
Writers == {"setbndl", "setbndu", "setbnd", "qsetbndl"}
Switches == {"process_specific_init", "process_specific_finish"}

\* What a read of halves h answers, and what a write of the word or wide word v
\* makes of them.
Shown(fn, h) ==
  CASE fn \in {"getbndl", "qgetbndl"} -> [lo |-> h.lower, hi |-> 0]
    [] fn = "getbndu" -> [lo |-> h.upper, hi |-> 0]
    [] fn = "getbnd" -> [lo |-> h.lower, hi |-> h.upper]

Written(fn, h, v) ==
  CASE fn = "setbndl" -> [h EXCEPT !.lower = v.lo]
    [] fn = "setbndu" -> [h EXCEPT !.upper = v.lo]
    [] fn = "setbnd" -> [lower |-> v.lo, upper |-> v.hi]
    [] fn = "qsetbndl" -> [lower |-> v.lo, upper |-> v.lo]

VARIABLES supported, \* whether the machine answers that it has MPX
          running,   \* FALSE once the process has been killed
          status,    \* each thread: unborn, idle, or busy with a call
          request,   \* the call it is busy with
          reply,     \* the answer to its last call, while idle
          on,        \* whether its store is on
          store      \* its registers

storeVars == <<supported, running, status, request, reply, on, store>>

StoreInit ==
  /\ supported \in BOOLEAN
  /\ running = TRUE
  /\ status = [t \in Clients |-> IF t = First THEN "idle" ELSE "unborn"]
  /\ request \in [Clients -> Requests]
  /\ reply = [t \in Clients |-> NoReply]
  /\ on = [t \in Clients |-> FALSE]
  /\ store = [t \in Clients |-> Fresh]

Invoke(t) ==
  /\ status[t] = "idle"
  /\ status' = [status EXCEPT ![t] = "busy"]
  /\ \E q \in Requests : request' = [request EXCEPT ![t] = q]
  /\ reply' = [reply EXCEPT ![t] = NoReply]
  /\ UNCHANGED <<supported, running, on, store>>

Answer(t, v) ==
  /\ status[t] = "busy"
  /\ status' = [status EXCEPT ![t] = "idle"]
  /\ reply' = [reply EXCEPT ![t] = v]
  /\ UNCHANGED <<supported, running, request>>

Read(t) ==
  LET q == request[t] IN
  /\ q.fn \in Readers /\ q.reg \in Registers
  /\ \/ on[t] /\ Answer(t, Shown(q.fn, store[t][q.reg]))
     \/ ~on[t] /\ \E a \in Words : \E b \in Words : Answer(t, [lo |-> a, hi |-> b])
  /\ UNCHANGED <<on, store>>

Write(t) ==
  LET q == request[t] IN
  /\ q.fn \in Writers /\ q.reg \in Registers
  /\ Answer(t, NoReply)
  /\ store' = IF on[t]
              THEN [store EXCEPT ![t][q.reg] = Written(q.fn, store[t][q.reg], q.val)]
              ELSE store
  /\ UNCHANGED on

\* A register that does not exist: reads answer 0, writes do nothing.
Reject(t) ==
  /\ request[t].fn \in Readers \cup Writers
  /\ request[t].reg \notin Registers
  /\ Answer(t, NoReply)
  /\ UNCHANGED <<on, store>>

\* Switching on or off forgets every register first.
Reset(t) ==
  /\ status[t] = "busy"
  /\ request[t].fn \in Switches
  /\ supported
  /\ on' = [on EXCEPT ![t] = FALSE]
  /\ store' = [store EXCEPT ![t] = Fresh]
  /\ UNCHANGED <<supported, running, status, request, reply>>

Switch(t) ==
  /\ supported
  /\ ~on[t]
  /\ store[t] = Fresh
  /\ \/ /\ request[t].fn = "process_specific_init"
        /\ on' = [on EXCEPT ![t] = TRUE]
     \/ /\ request[t].fn = "process_specific_finish"
        /\ UNCHANGED on
  /\ Answer(t, True)
  /\ UNCHANGED store

Refuse(t) ==
  /\ request[t].fn \in Switches
  /\ ~supported
  /\ Answer(t, NoReply)
  /\ UNCHANGED <<on, store>>

\* The machine answered that it has MPX but the kernel does not let it be used.
Die(t) ==
  /\ status[t] = "busy"
  /\ request[t].fn \in Switches
  /\ supported
  /\ running' = FALSE
  /\ UNCHANGED <<supported, status, request, reply, on, store>>

\* A new thread starts with a copy of its creator's registers.
Fork(t, u) ==
  /\ status[t] = "idle"
  /\ status[u] = "unborn"
  /\ status' = [status EXCEPT ![u] = "idle"]
  /\ on' = [on EXCEPT ![u] = on[t]]
  /\ store' = [store EXCEPT ![u] = store[t]]
  /\ UNCHANGED <<supported, running, request, reply>>

StoreNext ==
  /\ running
  /\ \E t \in Clients :
       \/ Invoke(t) \/ Read(t) \/ Write(t) \/ Reject(t)
       \/ Reset(t) \/ Switch(t) \/ Refuse(t) \/ Die(t)
       \/ \E u \in Clients : Fork(t, u)

StoreSpec == StoreInit /\ [][StoreNext]_storeVars
=============================================================================
