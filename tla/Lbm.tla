-------------------------------- MODULE Lbm --------------------------------
(***************************************************************************)
(* 519.lbm_r after its patch, the lines that 519.lbm_r.patch adds: the     *)
(* pointers to the grids are the lower halves of BND0 and BND1, and pass   *)
(* through locals where they change.  The registers are those that the     *)
(* library promises to a thread (see RegStore).                            *)
(***************************************************************************)
EXTENDS LbmProgram

VARIABLES pc, param, heap, field, t, shown,
          bnd,    \* the lower halves of BND0 and BND1
          p0, p1  \* the locals of the loop and of MAIN_finalize

vars == <<pc, param, heap, field, t, shown, bnd, p0, p1>>

Cleared == [r \in {"BND0", "BND1"} |-> NULL]

Init ==
  /\ param \in Params
  /\ pc = "init"
  /\ bnd = Cleared
  /\ heap = {}
  /\ field = [g \in Grids |-> Raw]
  /\ t = 1
  /\ shown = NoReport
  /\ p0 = NULL /\ p1 = NULL

-----------------------------------------------------------------------------
Goto(next) == pc' = next /\ UNCHANGED param
GoOn == Goto(Following(param, t)[pc])

qgetbndl(r) == bnd[r]
qsetbndl(r, p) == bnd' = [bnd EXCEPT ![r] = p]

\* Nobody looks at the answer.  After a refusal every register read is a word of the
\* stack, and what the program does with it is not in this model.
process_specific_init ==
  /\ pc = "init"
  /\ Goto("allocate_src") \/ Goto("undefined")
  /\ UNCHANGED <<heap, field, t, shown, bnd, p0, p1>>

AllocateGrid ==
  /\ pc \in {"allocate_src", "allocate_dst"}
  /\ \/ \E ptr \in Grids \ heap :
          /\ heap' = heap \cup {ptr}
          /\ qsetbndl(IF pc = "allocate_src" THEN "BND0" ELSE "BND1", ptr)
          /\ GoOn
     \/ Goto("exited") /\ UNCHANGED <<heap, bnd>>
  /\ UNCHANGED <<field, t, shown, p0, p1>>

Prepare ==
  /\ pc \in Initializing \cup Marking
  /\ field' = [field EXCEPT ![qgetbndl(IF pc \in OfDst THEN "BND1" ELSE "BND0")] = Prepared(pc, @)]
  /\ GoOn /\ UNCHANGED <<heap, t, shown, bnd, p0, p1>>

Collide ==
  /\ pc = "collide"
  /\ field' = [field EXCEPT ![qgetbndl("BND1")] = Collided(field[qgetbndl("BND0")], @)]
  /\ GoOn /\ UNCHANGED <<heap, t, shown, bnd, p0, p1>>

\* Plausible bug: LBM_swapGrids exchanges copies of the locals.
SwapCopies ==
  /\ pc = "swap"
  /\ p0' = qgetbndl("BND0") /\ p1' = qgetbndl("BND1")
  /\ Goto("set_bnd0") /\ UNCHANGED <<heap, field, t, shown, bnd>>

\* The locals get the registers, LBM_swapGrids exchanges the locals.
SwapGrids ==
  /\ pc = "swap"
  /\ p0' = qgetbndl("BND1") /\ p1' = qgetbndl("BND0")
  /\ Goto("set_bnd0") /\ UNCHANGED <<heap, field, t, shown, bnd>>

SetBnd0 ==
  /\ pc = "set_bnd0"
  /\ qsetbndl("BND0", p0)
  /\ Goto("set_bnd1") /\ UNCHANGED <<heap, field, t, shown, p0, p1>>

\* Plausible bug: the second register is computed from the first, as if the locals
\* had not been needed.
SetBnd1FromBnd0 ==
  /\ pc = "set_bnd1"
  /\ qsetbndl("BND1", qgetbndl("BND0"))
  /\ p0' = NULL /\ p1' = NULL
  /\ Goto(Following(param, t).swap) /\ UNCHANGED <<heap, field, t, shown>>

SetBnd1 ==
  /\ pc = "set_bnd1"
  /\ qsetbndl("BND1", p1)
  /\ p0' = NULL /\ p1' = NULL
  /\ Goto(Following(param, t).swap) /\ UNCHANGED <<heap, field, t, shown>>

Show ==
  /\ pc \in Showing
  /\ shown' = Report(param, pc, field[qgetbndl("BND0")])
  /\ GoOn /\ UNCHANGED <<heap, field, t, bnd, p0, p1>>

NextStep ==
  /\ pc = "next"
  /\ t' = t + 1
  /\ GoOn /\ UNCHANGED <<heap, field, shown, bnd, p0, p1>>

\* Plausible bug: both locals get the source grid.
ReadOneGrid ==
  /\ pc = "free_src"
  /\ p0' = qgetbndl("BND0") /\ p1' = qgetbndl("BND0")
  /\ Goto("free_p0") /\ UNCHANGED <<heap, field, t, shown, bnd>>

ReadGrids ==
  /\ pc = "free_src"
  /\ p0' = qgetbndl("BND0") /\ p1' = qgetbndl("BND1")
  /\ Goto("free_p0") /\ UNCHANGED <<heap, field, t, shown, bnd>>

FreeGrid ==
  /\ \/ /\ pc = "free_p0"
        /\ heap' = heap \ {p0} /\ p0' = NULL
        /\ Goto("free_p1") /\ UNCHANGED p1
     \/ /\ pc = "free_p1"
        /\ heap' = heap \ {p1} /\ p1' = NULL
        /\ Goto("finish") /\ UNCHANGED p0
  /\ UNCHANGED <<field, t, shown, bnd>>

process_specific_finish ==
  /\ pc = "finish"
  /\ bnd' = Cleared
  /\ Goto("end") /\ UNCHANGED <<heap, field, t, shown, p0, p1>>

Next ==
  \/ process_specific_init \/ AllocateGrid \/ Prepare \/ Collide
  \/ SwapGrids \/ SetBnd0 \/ SetBnd1 \/ Show \/ NextStep
  \/ ReadGrids \/ FreeGrid \/ process_specific_finish

Spec == Init /\ [][Next]_vars

-----------------------------------------------------------------------------
\* Where the program before the patch is.  It exchanges its pointers when BND0 is
\* set.  A program without MPX is not compared with it.
Point ==
  CASE pc \in {"init", "undefined"} -> "allocate_src"
    [] pc = "set_bnd0" -> "swap"
    [] pc = "set_bnd1" -> Following(param, t).swap
    [] pc = "free_p0" -> "free_src"
    [] pc = "free_p1" -> "free_dst"
    [] pc = "finish" -> "end"
    [] OTHER -> pc

\* Its pointers.  It clears one when it frees a grid.
Src == IF pc \in {"free_p1", "finish", "end"} THEN NULL ELSE bnd["BND0"]
Dst == CASE pc = "set_bnd1" -> p1
         [] pc \in {"finish", "end"} -> NULL
         [] OTHER -> bnd["BND1"]

Unpatched == INSTANCE LbmGrids WITH point <- Point, srcGrid <- Src, dstGrid <- Dst

(* The patched program does what the one before the patch does, statement by    *)
(* statement, although the registers hold one grid twice while they change    *)
(* and keep both pointers after the grids are freed.                         *)
ImplementsUnpatched == Unpatched!GridSpec

(* At the start of each time step BND0 has the grid of the step before, with    *)
(* its cells prepared, and BND1 the other grid, prepared alike: whatever the   *)
(* parity, the reports and the kind of simulation.                           *)
GridsInStep ==
  pc = "collide" =>
    LET src == qgetbndl("BND0")
        dst == qgetbndl("BND1")
        fixed == {"special"} \cup (IF param.obstacle THEN {"obstacle"} ELSE {})
    IN  /\ src # dst /\ {src, dst} = heap
        /\ field[src].step = t - 1
        /\ field[dst].step = IF t = 1 THEN 0 ELSE t - 2
        /\ \A g \in heap : field[g].cells \ {"inflow"} = fixed
        /\ param.simType = "CHANNEL" => "inflow" \in field[src].cells

(* A program that had MPX and comes to its end has freed both grids, and leaves *)
(* no pointer to them in a register or in a local.                            *)
NothingLeft ==
  pc = "end" => heap = {} /\ bnd = Cleared /\ p0 = NULL /\ p1 = NULL
-----------------------------------------------------------------------------
\* The inductive invariant.
Statements ==
  {"allocate_src", "allocate_dst", "collide", "swap", "next"} \cup Initializing \cup Marking \cup Showing

\* Where both grids are allocated and the registers have them.
WithGrids == (Statements \ {"allocate_src", "allocate_dst"}) \cup {"set_bnd0", "free_src", "free_p0"}

\* What the locals have while they are in use, and that they are cleared.
InLocals ==
  /\ pc = "set_bnd0" => p0 = bnd["BND1"] /\ p1 = bnd["BND0"]
  /\ pc = "free_p0" => p0 = bnd["BND0"] /\ p1 = bnd["BND1"]
  /\ pc = "free_p1" => p0 = NULL /\ p1 = bnd["BND1"]
  /\ pc \notin {"set_bnd0", "set_bnd1", "free_p0", "free_p1"} => p0 = NULL /\ p1 = NULL

\* Which grids are allocated.
InHeap ==
  /\ pc \in {"init", "undefined", "allocate_src", "finish", "end"} => heap = {}
  /\ pc = "allocate_dst" => heap = {bnd["BND0"]}
  /\ pc \in WithGrids => heap = {bnd["BND0"], bnd["BND1"]} /\ bnd["BND0"] # bnd["BND1"]
  /\ pc = "set_bnd1" => heap = {bnd["BND0"], p1} /\ bnd["BND0"] # p1
  /\ pc = "free_p1" => heap = {p1}

PointersInv ==
  /\ pc \in Statements \cup {"init", "undefined", "exited", "set_bnd0", "set_bnd1",
                            "free_src", "free_p0", "free_p1", "finish", "end"}
  /\ bnd \in [{"BND0", "BND1"} -> Grids \cup {NULL}]
  /\ {p0, p1} \subseteq Grids \cup {NULL}
  /\ InLocals
  /\ InHeap
  /\ pc = "end" => bnd = Cleared

\* The cells that are marked in both grids when the loop begins.
Obstacles == IF param.obstacle THEN {"obstacle"} ELSE {}
Fixed == {"special"} \cup Obstacles
AtStart(cells) == [step |-> 0, cells |-> cells]

\* What preparing has done to a grid before each statement up to the loop.
InPreparation(src, dst) ==
  /\ pc \in {"obstacle_src", "obstacle_dst"} => param.obstacle
  /\ pc \in {"initialize_dst", "obstacle_src"} => src = AtStart({})
  /\ pc \in {"obstacle_dst", "special_src"} => src = AtStart(Obstacles)
  /\ pc \in {"special_dst", "show_initial"} => src = AtStart(Fixed)
  /\ pc \in {"obstacle_src", "obstacle_dst"} => dst = AtStart({})
  /\ pc \in {"special_src", "special_dst"} => dst = AtStart(Obstacles)
  /\ pc = "show_initial" => dst = AtStart(Fixed)

\* The loop before Collide, after it, and once BND0 has the new grid.
Reading == {"inout", "collide"}
Computed == {"swap", "set_bnd0"}
Swapped == {"set_bnd1", "show_step", "next"}

InTimeStep(src, dst) ==
  /\ pc \in Reading \cup Computed \cup Swapped =>
       src.cells \ {"inflow"} = Fixed /\ dst.cells \ {"inflow"} = Fixed
  /\ pc \in Reading => src.step = t - 1 /\ dst.step = IF t = 1 THEN 0 ELSE t - 2
  /\ pc \in Computed => src.step = t - 1 /\ dst.step = t
  /\ pc \in Swapped => src.step = t /\ dst.step = t - 1
  /\ pc = "collide" /\ param.simType = "CHANNEL" => "inflow" \in src.cells

FieldsInv ==
  /\ heap \subseteq Grids /\ param \in Params /\ t \in Nat \ {0}
  /\ field \in [Grids -> [step : Int, cells : SUBSET {"obstacle", "special", "inflow"}]]
  /\ pc \in {"init", "allocate_src", "allocate_dst", "show_initial"} \cup Initializing \cup
            (Marking \ {"inout"}) => t = 1
  /\ InPreparation(field[Src], field[Dst])
  /\ InTimeStep(field[Src], field[Dst])

LbmInv == PointersInv /\ FieldsInv
=============================================================================
