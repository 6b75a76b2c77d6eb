----------------------------- MODULE LbmProgram ----------------------------
(***************************************************************************)
(* 519.lbm_r: the order of the statements that 519.lbm_r.patch shows, and  *)
(* what the functions that they call do to a grid.  The patch changes      *)
(* neither.                                                                *)
(***************************************************************************)
EXTENDS Integers

CONSTANTS Grids,       \* what LBM_allocateGrid may return
          NULL,
          Params,      \* the arguments of the program
          ReportEvery  \* 64: the steps from one report to the next

ASSUME LbmAssumption ==
  /\ NULL \notin Grids
  /\ Params \subseteq [nTimeSteps : Nat, simType : {"CHANNEL", "LDC"},
                       obstacle : BOOLEAN, action : {"NOTHING", "COMPARE", "STORE"}]
  /\ ReportEvery \in Nat \ {0}

\* The head of the loop over time steps, before step n.
Head(p, n) ==
  IF n > p.nTimeSteps THEN "show_final"
  ELSE IF p.simType = "CHANNEL" THEN "inout" ELSE "collide"

\* The statement after each, in time step n.
Following(p, n) ==
  [allocate_src |-> "allocate_dst", allocate_dst |-> "initialize_src",
   initialize_src |-> "initialize_dst",
   initialize_dst |-> IF p.obstacle THEN "obstacle_src" ELSE "special_src",
   obstacle_src |-> "obstacle_dst", obstacle_dst |-> "special_src",
   special_src |-> "special_dst", special_dst |-> "show_initial",
   show_initial |-> Head(p, 1),
   inout |-> "collide", collide |-> "swap",
   swap |-> IF n % ReportEvery = 0 THEN "show_step" ELSE "next",
   show_step |-> "next", next |-> Head(p, n + 1),
   show_final |-> IF p.action = "NOTHING" THEN "free_src" ELSE "output",
   output |-> "free_src", free_src |-> "free_dst", free_dst |-> "end"]

Initializing == {"initialize_src", "initialize_dst"}
MarkedCells ==
  [obstacle_src |-> "obstacle", obstacle_dst |-> "obstacle",
   special_src |-> "special", special_dst |-> "special", inout |-> "inflow"]
Marking == DOMAIN MarkedCells
Showing == {"show_initial", "show_step", "show_final", "output"}
OfDst == {"initialize_dst", "obstacle_dst", "special_dst"}

\* A grid holds the values of a time step and marked cells.
Raw == [step |-> -1, cells |-> {}]

\* LBM_initializeGrid clears a grid.  LBM_loadObstacleFile, the functions for special
\* cells and LBM_handleInOutFlow set some of its cells.
Prepared(here, f) ==
  IF here \in Initializing THEN [step |-> 0, cells |-> {}]
  ELSE [f EXCEPT !.cells = @ \cup {MarkedCells[here]}]

\* LBM_performStreamCollideTRT: the next time step, in the other grid's cells.
Collided(from, into) == [into EXCEPT !.step = from.step + 1]

\* LBM_showGridStatistics, LBM_compareVelocityField and LBM_storeVelocityField.
Report(p, here, f) ==
  [what |-> IF here = "output" THEN p.action ELSE "statistics", field |-> f]
NoReport == [what |-> "nothing", field |-> Raw]
=============================================================================
