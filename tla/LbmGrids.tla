------------------------------ MODULE LbmGrids -----------------------------
(***************************************************************************)
(* 519.lbm_r before its patch, the lines that 519.lbm_r.patch removes: two *)
(* grids in two static pointers.  A time step reads the source grid,       *)
(* writes the destination and exchanges the pointers.                      *)
(***************************************************************************)
EXTENDS LbmProgram

VARIABLES param, point, srcGrid, dstGrid,
          heap,   \* the grids that are allocated
          field,  \* what each grid holds
          t,      \* the time step
          shown   \* what the program reported last

gridVars == <<param, point, srcGrid, dstGrid, heap, field, t, shown>>

GridInit ==
  /\ param \in Params
  /\ point = "allocate_src"
  /\ srcGrid = NULL /\ dstGrid = NULL
  /\ heap = {}
  /\ field = [g \in Grids |-> Raw]
  /\ t = 1
  /\ shown = NoReport

Goto == point' = Following(param, t)[point] /\ UNCHANGED param

\* LBM_allocateGrid ends the program if there is no memory.
AllocateGrid ==
  \/ /\ point = "allocate_src" /\ srcGrid' \in Grids \ heap
     /\ heap' = heap \cup {srcGrid'}
     /\ Goto /\ UNCHANGED <<dstGrid, field, t, shown>>
  \/ /\ point = "allocate_dst" /\ dstGrid' \in Grids \ heap
     /\ heap' = heap \cup {dstGrid'}
     /\ Goto /\ UNCHANGED <<srcGrid, field, t, shown>>
  \/ /\ point \in {"allocate_src", "allocate_dst"}
     /\ point' = "exited"
     /\ UNCHANGED <<param, srcGrid, dstGrid, heap, field, t, shown>>

Prepare ==
  /\ point \in Initializing \cup Marking
  /\ field' = [field EXCEPT ![IF point \in OfDst THEN dstGrid ELSE srcGrid] = Prepared(point, @)]
  /\ Goto /\ UNCHANGED <<srcGrid, dstGrid, heap, t, shown>>

Collide ==
  /\ point = "collide"
  /\ field' = [field EXCEPT ![dstGrid] = Collided(field[srcGrid], @)]
  /\ Goto /\ UNCHANGED <<srcGrid, dstGrid, heap, t, shown>>

SwapGrids ==
  /\ point = "swap"
  /\ srcGrid' = dstGrid /\ dstGrid' = srcGrid
  /\ Goto /\ UNCHANGED <<heap, field, t, shown>>

Show ==
  /\ point \in Showing
  /\ shown' = Report(param, point, field[srcGrid])
  /\ Goto /\ UNCHANGED <<srcGrid, dstGrid, heap, field, t>>

NextStep ==
  /\ point = "next"
  /\ t' = t + 1
  /\ Goto /\ UNCHANGED <<srcGrid, dstGrid, heap, field, shown>>

\* LBM_freeGrid clears the pointer.
FreeGrid ==
  \/ /\ point = "free_src"
     /\ heap' = heap \ {srcGrid} /\ srcGrid' = NULL
     /\ Goto /\ UNCHANGED <<dstGrid, field, t, shown>>
  \/ /\ point = "free_dst"
     /\ heap' = heap \ {dstGrid} /\ dstGrid' = NULL
     /\ Goto /\ UNCHANGED <<srcGrid, field, t, shown>>

GridNext ==
  AllocateGrid \/ Prepare \/ Collide \/ SwapGrids \/ Show \/ NextStep \/ FreeGrid

GridSpec == GridInit /\ [][GridNext]_gridVars
=============================================================================
