---------------------------- MODULE Lbm_proofs -----------------------------
(***************************************************************************)
(* The patched program of Lbm implements the one before the patch, for     *)
(* every set of grids and parameters.                                      *)
(***************************************************************************)
EXTENDS Lbm, TLAPS

Entering == Statements \cup {"free_src"}

(* The order of the statements never leads to one of the points that only the   *)
(* patched program has.                                                      *)
LEMMA FollowingStatement ==
  ASSUME NEW p, NEW n, NEW s \in Statements
  PROVE  Following(p, n)[s] \in Entering
  BY DEF Following, Head, Statements, Entering, Initializing, Marking, MarkedCells, Showing

LEMMA FollowingSwap ==
  ASSUME NEW p, NEW n
  PROVE  Following(p, n).swap \in Statements
  BY DEF Following, Statements, Initializing, Marking, MarkedCells, Showing

(* The set of the marking statements, spelled out.                              *)
LEMMA MarkingStatements ==
  Marking = {"obstacle_src", "obstacle_dst", "special_src", "special_dst", "inout"}
  BY DEF Marking, MarkedCells

(* After the second allocation the registers have both grids at each of them.    *)
LEMMA FollowingAllocation ==
  ASSUME NEW p, NEW n
  PROVE  /\ Following(p, n)["allocate_src"] = "allocate_dst"
         /\ \A s \in Statements \ {"allocate_src"} : Following(p, n)[s] \in WithGrids
         /\ Following(p, n).swap \in WithGrids
  BY DEF Following, Head, Statements, WithGrids, Initializing, Marking, MarkedCells, Showing

-----------------------------------------------------------------------------
(* The initial states satisfy the invariant.                                   *)
LEMMA InitPointers == Init => PointersInv
  BY MarkingStatements
  DEF Init, PointersInv, InLocals, InHeap, WithGrids, Cleared, Statements, Initializing, Showing

(* A step that changes neither the registers, nor the locals, nor the heap, and    *)
(* goes from one statement with both grids to the next, preserves the invariant. *)
LEMMA QuietStep ==
  ASSUME PointersInv, pc \in Statements \ {"allocate_src", "allocate_dst", "swap"},
         GoOn, UNCHANGED <<heap, bnd, p0, p1>>
  PROVE  PointersInv'
<1>1. pc' \in Entering /\ pc' \in WithGrids
  BY FollowingStatement, FollowingAllocation DEF GoOn, Goto
<1>2. pc \in WithGrids /\ pc \notin {"set_bnd0", "set_bnd1", "free_p0", "free_p1"}
  BY MarkingStatements DEF WithGrids, Statements, Initializing, Showing
<1>3. pc' \notin {"set_bnd0", "set_bnd1", "free_p0", "free_p1", "init", "undefined",
                  "allocate_src", "allocate_dst", "finish", "end"}
  BY <1>1, MarkingStatements DEF Entering, WithGrids, Statements, Initializing, Showing
<1> QED
  BY <1>1, <1>2, <1>3 DEF PointersInv, InLocals, InHeap, Entering

(* Every step preserves the invariant.                                         *)
LEMMA NextPointers == PointersInv /\ [Next]_vars => PointersInv'
<1> SUFFICES ASSUME PointersInv, [Next]_vars PROVE PointersInv'
  OBVIOUS
<1> DEFINE Special == {"set_bnd0", "set_bnd1", "free_p0", "free_p1", "init", "undefined",
                       "exited", "finish", "end"}
<1>0. /\ Statements \cap (Special \cup {"free_src"}) = {}
      /\ WithGrids \cap {"set_bnd1", "free_p1", "init", "undefined", "exited", "finish", "end",
                         "allocate_src", "allocate_dst"} = {}
      /\ {"swap", "set_bnd0", "free_src", "free_p0"} \subseteq WithGrids
      /\ {"allocate_src", "allocate_dst"} \subseteq Statements
  BY MarkingStatements DEF WithGrids, Statements, Initializing, Showing
<1>1. CASE process_specific_init
  BY <1>1, <1>0 DEF process_specific_init, Goto, PointersInv, InLocals, InHeap
<1>2. CASE AllocateGrid
  <2>1. CASE Goto("exited") /\ UNCHANGED <<heap, bnd>>
    BY <1>2, <2>1, <1>0 DEF AllocateGrid, Goto, PointersInv, InLocals, InHeap
  <2>2. ASSUME NEW ptr \in Grids \ heap,
               heap' = heap \cup {ptr},
               qsetbndl(IF pc = "allocate_src" THEN "BND0" ELSE "BND1", ptr),
               GoOn
        PROVE  PointersInv'
    <3>1. bnd' \in [{"BND0", "BND1"} -> Grids \cup {NULL}]
      BY <2>2 DEF qsetbndl, PointersInv
    <3>2. CASE pc = "allocate_src"
      <4>1. pc' = "allocate_dst"
        BY <2>2, <3>2, FollowingAllocation DEF GoOn, Goto
      <4>2. heap' = {bnd'["BND0"]}
        BY <2>2, <3>2 DEF qsetbndl, PointersInv, InHeap
      <4> QED
        BY <1>2, <1>0, <3>1, <3>2, <4>1, <4>2 DEF AllocateGrid, PointersInv, InLocals, InHeap
    <3>3. CASE pc = "allocate_dst"
      <4>1. pc' \in WithGrids /\ pc' \in Entering
        BY <2>2, <3>3, <1>0, FollowingAllocation, FollowingStatement DEF GoOn, Goto
      <4>2. heap' = {bnd'["BND0"], bnd'["BND1"]} /\ bnd'["BND0"] # bnd'["BND1"]
        BY <2>2, <3>3 DEF qsetbndl, PointersInv, InHeap
      <4>3. pc' \notin Special
        BY <4>1, <1>0 DEF Entering
      <4> QED
        BY <1>2, <1>0, <3>1, <3>3, <4>1, <4>2, <4>3 DEF AllocateGrid, PointersInv, InLocals, InHeap, Entering
    <3> QED
      BY <1>2, <3>2, <3>3 DEF AllocateGrid
  <2> QED
    BY <1>2, <2>1, <2>2 DEF AllocateGrid
<1>3. CASE Prepare
  BY <1>3, QuietStep, MarkingStatements DEF Prepare, Statements, Initializing
<1>4. CASE Collide
  BY <1>4, QuietStep DEF Collide, Statements
<1>5. CASE SwapGrids
  BY <1>5, <1>0 DEF SwapGrids, Goto, qgetbndl, PointersInv, InLocals, InHeap
<1>6. CASE SetBnd0
  BY <1>6, <1>0 DEF SetBnd0, Goto, qsetbndl, PointersInv, InLocals, InHeap
<1>7. CASE SetBnd1
  <2>1. pc' \in Statements /\ pc' \in WithGrids
    BY <1>7, FollowingSwap, FollowingAllocation DEF SetBnd1, Goto
  <2>2. pc' \notin Special /\ pc' \notin {"allocate_src", "allocate_dst"}
    BY <2>1, <1>0
  <2>3. /\ bnd' \in [{"BND0", "BND1"} -> Grids \cup {NULL}]
        /\ bnd'["BND0"] = bnd["BND0"] /\ bnd'["BND1"] = p1
    BY <1>7 DEF SetBnd1, qsetbndl, PointersInv
  <2> QED
    BY <1>7, <2>1, <2>2, <2>3 DEF SetBnd1, PointersInv, InLocals, InHeap
<1>8. CASE Show
  BY <1>8, QuietStep, MarkingStatements DEF Show, Statements, Initializing, Showing
<1>9. CASE NextStep
  BY <1>9, QuietStep DEF NextStep, Statements
<1>10. CASE ReadGrids
  BY <1>10, <1>0 DEF ReadGrids, Goto, qgetbndl, PointersInv, InLocals, InHeap
<1>11. CASE FreeGrid
  BY <1>11, <1>0 DEF FreeGrid, Goto, PointersInv, InLocals, InHeap
<1>12. CASE process_specific_finish
  BY <1>12, <1>0 DEF process_specific_finish, Goto, Cleared, PointersInv, InLocals, InHeap
<1>13. CASE UNCHANGED vars
  BY <1>13 DEF vars, PointersInv, InLocals, InHeap
<1> QED
  BY <1>1, <1>2, <1>3, <1>4, <1>5, <1>6, <1>7, <1>8, <1>9, <1>10, <1>11, <1>12, <1>13 DEF Next

(* The registers, the locals and the heap have what the point of the program      *)
(* says, in every reachable state.                                           *)
LEMMA PointersAlways == Spec => []PointersInv
  BY InitPointers, NextPointers, PTL DEF Spec

(* The patched program ends without a grid and without a pointer to one.         *)
THEOREM NothingIsLeft == Spec => []NothingLeft
<1>1. PointersInv => NothingLeft
  BY DEF PointersInv, InLocals, InHeap, NothingLeft
<1> QED
  BY <1>1, PointersAlways, PTL

-----------------------------------------------------------------------------
(* The statement after each, spelled out.                                      *)
LEMMA FollowingIs ==
  ASSUME NEW p, NEW n
  PROVE  /\ Following(p, n)["allocate_src"] = "allocate_dst"
         /\ Following(p, n)["allocate_dst"] = "initialize_src"
         /\ Following(p, n)["initialize_src"] = "initialize_dst"
         /\ Following(p, n)["initialize_dst"] = IF p.obstacle THEN "obstacle_src" ELSE "special_src"
         /\ Following(p, n)["obstacle_src"] = "obstacle_dst"
         /\ Following(p, n)["obstacle_dst"] = "special_src"
         /\ Following(p, n)["special_src"] = "special_dst"
         /\ Following(p, n)["special_dst"] = "show_initial"
         /\ Following(p, n)["show_initial"] = Head(p, 1)
         /\ Following(p, n)["inout"] = "collide"
         /\ Following(p, n)["collide"] = "swap"
         /\ Following(p, n).swap \in {"show_step", "next"}
         /\ Following(p, n)["show_step"] = "next"
         /\ Following(p, n)["next"] = Head(p, n + 1)
         /\ Following(p, n)["show_final"] \in {"free_src", "output"}
         /\ Following(p, n)["output"] = "free_src"
  BY DEF Following

LEMMA HeadIs ==
  ASSUME NEW p, NEW n
  PROVE  /\ Head(p, n) \in {"show_final", "inout", "collide"}
         /\ Head(p, n) = "collide" => p.simType # "CHANNEL"
  BY DEF Head

(* Wherever a statement works on the grids there are two of them.               *)
LEMMA TwoGrids ==
  ASSUME PointersInv, heap \subseteq Grids, pc \in WithGrids \cup {"set_bnd1"}
  PROVE  /\ Src \in Grids /\ Dst \in Grids /\ Src # Dst
         /\ Src = bnd["BND0"] /\ Dst = IF pc = "set_bnd1" THEN p1 ELSE bnd["BND1"]
<1>1. pc \notin {"free_p1", "finish", "end"}
  BY MarkingStatements DEF WithGrids, Statements, Initializing, Showing
<1> QED
  BY <1>1 DEF PointersInv, InHeap, Src, Dst

Field == [step : Int, cells : SUBSET {"obstacle", "special", "inflow"}]

(* What preparing does to a grid.                                              *)
LEMMA PreparedIs ==
  ASSUME NEW f \in Field
  PROVE  /\ Prepared("initialize_src", f) = AtStart({}) /\ Prepared("initialize_dst", f) = AtStart({})
         /\ \A here \in {"obstacle_src", "obstacle_dst"} :
              /\ f = AtStart({}) => Prepared(here, f) = AtStart({"obstacle"})
         /\ \A here \in {"special_src", "special_dst"} :
              f = AtStart(Obstacles) => Prepared(here, f) = AtStart(Fixed)
         /\ Prepared("inout", f) = [step |-> f.step, cells |-> f.cells \cup {"inflow"}]
<1>1. \A here \in Marking : Prepared(here, f) = [step |-> f.step, cells |-> f.cells \cup {MarkedCells[here]}]
  BY MarkingStatements DEF Prepared, Field, Initializing
<1>2. /\ MarkedCells["obstacle_src"] = "obstacle" /\ MarkedCells["obstacle_dst"] = "obstacle"
      /\ MarkedCells["special_src"] = "special" /\ MarkedCells["special_dst"] = "special"
      /\ MarkedCells["inout"] = "inflow"
  BY DEF MarkedCells
<1>3. Prepared("initialize_src", f) = AtStart({}) /\ Prepared("initialize_dst", f) = AtStart({})
  BY DEF Prepared, AtStart, Initializing
<1>4. \A here \in {"obstacle_src", "obstacle_dst"} :
        f = AtStart({}) => Prepared(here, f) = AtStart({"obstacle"})
  BY <1>1, <1>2, MarkingStatements DEF AtStart
<1>5. \A here \in {"special_src", "special_dst"} :
        f = AtStart(Obstacles) => Prepared(here, f) = AtStart(Fixed)
  <2>1. Obstacles \cup {"special"} = Fixed
    BY DEF Fixed
  <2> QED
    BY <1>1, <1>2, <2>1, MarkingStatements DEF AtStart
<1>6. Prepared("inout", f) = [step |-> f.step, cells |-> f.cells \cup {"inflow"}]
  BY <1>1, <1>2, MarkingStatements
<1> QED
  BY <1>3, <1>4, <1>5, <1>6

(* The fields of a grid stay in range.                                         *)
LEMMA PreparedType ==
  ASSUME NEW f \in Field, NEW here \in Initializing \cup Marking
  PROVE  Prepared(here, f) \in Field
<1>1. CASE here \in Initializing
  BY <1>1 DEF Prepared, Field
<1>2. CASE here \notin Initializing
  <2>1. here \in Marking /\ MarkedCells[here] \in {"obstacle", "special", "inflow"}
    BY <1>2 DEF Marking, MarkedCells
  <2>2. f.cells \cup {MarkedCells[here]} \in SUBSET {"obstacle", "special", "inflow"}
    BY <2>1 DEF Field
  <2> QED
    BY <1>2, <2>2 DEF Prepared, Field
<1> QED
  BY <1>1, <1>2

(* What the invariant says of the fields, at one statement after another.         *)
LEMMA FieldsFrom ==
  ASSUME heap' \subseteq Grids, param' \in Params, t' \in Nat \ {0}, field' \in [Grids -> Field],
         t' = 1 \/ pc' \notin {"init", "allocate_src", "allocate_dst", "show_initial"}
                             \cup Initializing \cup (Marking \ {"inout"}),
         InPreparation(field[Src], field[Dst])',
         InTimeStep(field[Src], field[Dst])'
  PROVE  FieldsInv'
  BY DEF FieldsInv, Field

(* Preparing takes the grids from one statement to the next.                     *)
LEMMA PrepareFields ==
  ASSUME PointersInv, FieldsInv, Prepare
  PROVE  FieldsInv'
<1>1. /\ pc \in {"initialize_src", "initialize_dst", "obstacle_src", "obstacle_dst",
                 "special_src", "special_dst", "inout"}
      /\ pc' = Following(param, t)[pc] /\ param' = param
      /\ heap' = heap /\ t' = t /\ bnd' = bnd /\ p1' = p1
  BY MarkingStatements DEF Prepare, GoOn, Goto, Initializing
<1>2. pc \in WithGrids /\ pc' \in WithGrids
      /\ pc' \in {"initialize_dst", "obstacle_src", "obstacle_dst",
                 "special_src", "special_dst", "show_initial", "collide"}
      /\ pc # "set_bnd1" /\ pc' # "set_bnd1"
  BY <1>1, FollowingIs, MarkingStatements DEF WithGrids, Statements, Initializing, Showing
<1>3. heap \subseteq Grids /\ heap' \subseteq Grids
  BY <1>1 DEF FieldsInv
<1>4. /\ Src \in Grids /\ Dst \in Grids /\ Src # Dst /\ Src' = Src /\ Dst' = Dst
      /\ Src = bnd["BND0"] /\ Dst = bnd["BND1"]
  <2>1. /\ Src \in Grids /\ Dst \in Grids /\ Src # Dst
        /\ Src = bnd["BND0"] /\ Dst = bnd["BND1"]
    BY <1>2, <1>3, TwoGrids
  <2>2. pc' \notin {"free_p1", "finish", "end", "set_bnd1"}
    BY <1>2
  <2>3. Src' = bnd'["BND0"] /\ Dst' = bnd'["BND1"]
    BY <2>2 DEF Src, Dst
  <2> QED
    BY <1>1, <2>1, <2>3
<1> DEFINE g == IF pc \in OfDst THEN Dst ELSE Src
<1>5. /\ field' = [field EXCEPT ![g] = Prepared(pc, field[g])] /\ g \in Grids
      /\ field \in [Grids -> Field]
  BY <1>4 DEF Prepare, qgetbndl, FieldsInv, Field
<1>6. field' \in [Grids -> Field]
  BY <1>1, <1>5, PreparedType, MarkingStatements DEF Initializing
<1>7. /\ pc \in OfDst => field'[Dst] = Prepared(pc, field[Dst]) /\ field'[Src] = field[Src]
      /\ pc \notin OfDst => field'[Src] = Prepared(pc, field[Src]) /\ field'[Dst] = field[Dst]
  BY <1>4, <1>5
<1>8. Obstacles' = Obstacles /\ Fixed' = Fixed
  BY <1>1 DEF Obstacles, Fixed
<1>9. (field[Src])' = field'[Src] /\ (field[Dst])' = field'[Dst]
  BY <1>4
<1>10. field[Src] \in Field /\ field[Dst] \in Field
  BY <1>4, <1>5
<1>11. InPreparation(field[Src], field[Dst])'
  <2>1. InPreparation(field[Src], field[Dst])
    BY DEF FieldsInv
  <2>2. CASE pc = "initialize_src"
    <3>1. pc' = "initialize_dst" /\ pc \notin OfDst
      BY <1>1, <2>2, FollowingIs DEF OfDst
    <3> QED
      BY <1>7, <1>9, <1>10, <2>2, <3>1, PreparedIs DEF InPreparation
  <2>3. CASE pc = "initialize_dst"
    <3>1. pc \in OfDst /\ IF param.obstacle THEN pc' = "obstacle_src" ELSE pc' = "special_src"
      BY <1>1, <2>3, FollowingIs DEF OfDst
    <3>2. field[Src] = AtStart({})
      BY <2>1, <2>3 DEF InPreparation
    <3>3. ~param.obstacle => Obstacles = {}
      BY DEF Obstacles
    <3> QED
      BY <1>1, <1>7, <1>8, <1>9, <1>10, <2>3, <3>1, <3>2, <3>3, PreparedIs DEF InPreparation
  <2>4. CASE pc = "obstacle_src"
    <3>1. pc' = "obstacle_dst" /\ pc \notin OfDst
      BY <1>1, <2>4, FollowingIs DEF OfDst
    <3>2. param.obstacle /\ Obstacles = {"obstacle"} /\ field[Src] = AtStart({}) /\ field[Dst] = AtStart({})
      BY <2>1, <2>4 DEF InPreparation, Obstacles
    <3> QED
      BY <1>1, <1>7, <1>8, <1>9, <1>10, <2>4, <3>1, <3>2, PreparedIs DEF InPreparation
  <2>5. CASE pc = "obstacle_dst"
    <3>1. pc' = "special_src" /\ pc \in OfDst
      BY <1>1, <2>5, FollowingIs DEF OfDst
    <3>2. param.obstacle /\ Obstacles = {"obstacle"} /\ field[Src] = AtStart(Obstacles) /\ field[Dst] = AtStart({})
      BY <2>1, <2>5 DEF InPreparation, Obstacles
    <3> QED
      BY <1>1, <1>7, <1>8, <1>9, <1>10, <2>5, <3>1, <3>2, PreparedIs DEF InPreparation
  <2>6. CASE pc = "special_src"
    <3>1. pc' = "special_dst" /\ pc \notin OfDst
      BY <1>1, <2>6, FollowingIs DEF OfDst
    <3>2. field[Src] = AtStart(Obstacles) /\ field[Dst] = AtStart(Obstacles)
      BY <2>1, <2>6 DEF InPreparation
    <3> QED
      BY <1>1, <1>7, <1>8, <1>9, <1>10, <2>6, <3>1, <3>2, PreparedIs DEF InPreparation
  <2>7. CASE pc = "special_dst"
    <3>1. pc' = "show_initial" /\ pc \in OfDst
      BY <1>1, <2>7, FollowingIs DEF OfDst
    <3>2. field[Src] = AtStart(Fixed) /\ field[Dst] = AtStart(Obstacles)
      BY <2>1, <2>7 DEF InPreparation
    <3> QED
      BY <1>1, <1>7, <1>8, <1>9, <1>10, <2>7, <3>1, <3>2, PreparedIs DEF InPreparation
  <2>8. CASE pc = "inout"
    <3>1. pc' = "collide"
      BY <1>1, <2>8, FollowingIs
    <3> QED
      BY <3>1 DEF InPreparation
  <2> QED
    BY <1>1, <2>2, <2>3, <2>4, <2>5, <2>6, <2>7, <2>8
<1>12. InTimeStep(field[Src], field[Dst])'
  <2>1. CASE pc = "inout"
    <3>1. pc' = "collide" /\ pc \notin OfDst
      BY <1>1, <2>1, FollowingIs DEF OfDst
    <3>2. InTimeStep(field[Src], field[Dst])
      BY DEF FieldsInv
    <3>3. /\ field'[Dst] = field[Dst]
          /\ field'[Src] = [step |-> field[Src].step, cells |-> field[Src].cells \cup {"inflow"}]
      BY <1>7, <1>10, <2>1, <3>1, PreparedIs
    <3>4. field'[Src].cells \ {"inflow"} = field[Src].cells \ {"inflow"}
      BY <3>3
    <3> QED
      BY <1>1, <1>8, <1>9, <2>1, <3>1, <3>2, <3>3, <3>4 DEF InTimeStep, Reading, Computed, Swapped
  <2>2. CASE pc # "inout"
    <3>1. pc' \notin Reading \cup Computed \cup Swapped
      BY <1>1, <2>2, FollowingIs DEF Reading, Computed, Swapped
    <3> QED
      BY <3>1 DEF InTimeStep, Reading
  <2> QED
    BY <2>1, <2>2
<1>13. t' = 1 \/ pc' = "collide"
  <2>1. CASE pc = "inout"
    BY <1>1, <2>1, FollowingIs
  <2>2. CASE pc # "inout"
    BY <1>1, <2>2 DEF FieldsInv, Marking, MarkedCells, Initializing
  <2> QED
    BY <2>1, <2>2
<1>14. param' \in Params /\ t' \in Nat \ {0}
  BY <1>1 DEF FieldsInv
<1> QED
  BY <1>3, <1>6, <1>11, <1>12, <1>13, <1>14, FieldsFrom, MarkingStatements DEF Initializing

(* A report changes no grid, in any of the four places that have one.            *)
LEMMA ShowFields ==
  ASSUME PointersInv, FieldsInv, Show
  PROVE  FieldsInv'
<1>1. /\ pc \in Showing /\ pc' = Following(param, t)[pc] /\ param' = param
      /\ heap' = heap /\ t' = t /\ bnd' = bnd /\ p1' = p1 /\ field' = field
  BY DEF Show, GoOn, Goto
<1>2. /\ heap' \subseteq Grids /\ param' \in Params /\ t' \in Nat \ {0}
      /\ field' \in [Grids -> Field]
  BY <1>1 DEF FieldsInv, Field
<1>3. Obstacles' = Obstacles /\ Fixed' = Fixed
  BY <1>1 DEF Obstacles, Fixed
<1>4. CASE pc \in {"show_final", "output"}
  <2>1. pc' \in {"output", "free_src"}
    BY <1>1, <1>4, FollowingIs
  <2>2. InPreparation(field[Src], field[Dst])' /\ InTimeStep(field[Src], field[Dst])'
    BY <2>1 DEF InPreparation, InTimeStep, Reading, Computed, Swapped
  <2> QED
    BY <1>2, <2>1, <2>2, FieldsFrom, MarkingStatements DEF Initializing
<1>5. CASE pc = "show_initial"
  <2>1. pc' \in {"show_final", "inout", "collide"} /\ (pc' = "collide" => param.simType # "CHANNEL")
    BY <1>1, <1>5, FollowingIs, HeadIs
  <2>2. Src' = Src /\ Dst' = Dst
    BY <1>1, <1>5, <2>1 DEF Src, Dst
  <2>3. t = 1 /\ field[Src] = AtStart(Fixed) /\ field[Dst] = AtStart(Fixed)
    BY <1>5 DEF FieldsInv, InPreparation
  <2>4. Fixed \ {"inflow"} = Fixed
    BY DEF Fixed, Obstacles
  <2>5. InPreparation(field[Src], field[Dst])'
    BY <2>1 DEF InPreparation
  <2>6. InTimeStep(field[Src], field[Dst])'
    BY <1>1, <1>3, <2>1, <2>2, <2>3, <2>4 DEF InTimeStep, Reading, Computed, Swapped, AtStart
  <2> QED
    BY <1>2, <2>1, <2>5, <2>6, FieldsFrom, MarkingStatements DEF Initializing
<1>6. CASE pc = "show_step"
  <2>1. pc' = "next"
    BY <1>1, <1>6, FollowingIs
  <2>2. Src' = Src /\ Dst' = Dst
    BY <1>1, <1>6, <2>1 DEF Src, Dst
  <2>3. InPreparation(field[Src], field[Dst])'
    BY <2>1 DEF InPreparation
  <2>4. InTimeStep(field[Src], field[Dst])'
    BY <1>1, <1>3, <1>6, <2>1, <2>2 DEF FieldsInv, InTimeStep, Reading, Computed, Swapped
  <2> QED
    BY <1>2, <2>1, <2>3, <2>4, FieldsFrom, MarkingStatements DEF Initializing
<1> QED
  BY <1>1, <1>4, <1>5, <1>6 DEF Showing

(* Colliding writes the next time step into the destination.                     *)
LEMMA CollideFields ==
  ASSUME PointersInv, FieldsInv, Collide
  PROVE  FieldsInv'
<1>1. /\ pc = "collide" /\ pc' = "swap" /\ param' = param
      /\ heap' = heap /\ t' = t /\ bnd' = bnd /\ p1' = p1
  BY FollowingIs DEF Collide, GoOn, Goto
<1>2. /\ Src \in Grids /\ Dst \in Grids /\ Src # Dst /\ Src' = Src /\ Dst' = Dst
      /\ Src = bnd["BND0"] /\ Dst = bnd["BND1"]
  <2>1. pc \in WithGrids /\ heap \subseteq Grids
    BY <1>1 DEF FieldsInv, WithGrids, Statements
  <2> QED
    BY <1>1, <2>1, TwoGrids DEF Src, Dst
<1>3. /\ field' = [field EXCEPT ![Dst] = Collided(field[Src], field[Dst])]
      /\ field \in [Grids -> Field] /\ field[Src] \in Field /\ field[Dst] \in Field
      /\ InTimeStep(field[Src], field[Dst])
  BY <1>2 DEF Collide, qgetbndl, FieldsInv, Field
<1>4. Collided(field[Src], field[Dst]) = [step |-> field[Src].step + 1, cells |-> field[Dst].cells]
  BY <1>3 DEF Collided, Field
<1>5. field' \in [Grids -> Field]
  <2>1. field[Src].step + 1 \in Int /\ field[Dst].cells \in SUBSET {"obstacle", "special", "inflow"}
    BY <1>3 DEF Field
  <2>2. Collided(field[Src], field[Dst]) \in Field
    BY <1>4, <2>1 DEF Field
  <2> QED
    BY <1>2, <1>3, <2>2
<1>6. /\ (field[Src])' = field[Src]
      /\ (field[Dst])' = [step |-> field[Src].step + 1, cells |-> field[Dst].cells]
  BY <1>2, <1>3, <1>4
<1>7. Obstacles' = Obstacles /\ Fixed' = Fixed
  BY <1>1 DEF Obstacles, Fixed
<1>8. t \in Nat \ {0}
  BY DEF FieldsInv
<1>9. field[Src].step = t - 1 /\ (t - 1) + 1 = t
  BY <1>1, <1>3, <1>8 DEF InTimeStep, Reading
<1>10. InTimeStep(field[Src], field[Dst])'
  BY <1>1, <1>3, <1>6, <1>7, <1>9 DEF InTimeStep, Reading, Computed, Swapped
<1>11. InPreparation(field[Src], field[Dst])'
  BY <1>1 DEF InPreparation
<1> QED
  BY <1>1, <1>5, <1>10, <1>11, FieldsFrom, MarkingStatements DEF Initializing, FieldsInv

(* The exchange: at no point of it is a grid taken for the other.                *)
LEMMA SwapFields ==
  ASSUME PointersInv, FieldsInv, SwapGrids \/ SetBnd0 \/ SetBnd1
  PROVE  FieldsInv'
<1>1. /\ param' = param /\ heap' = heap /\ t' = t /\ field' = field
      /\ heap' \subseteq Grids /\ param' \in Params /\ t' \in Nat \ {0}
      /\ field' \in [Grids -> Field]
  BY DEF SwapGrids, SetBnd0, SetBnd1, Goto, FieldsInv, Field
<1>2. Obstacles' = Obstacles /\ Fixed' = Fixed
  BY <1>1 DEF Obstacles, Fixed
<1>3. InTimeStep(field[Src], field[Dst])
  BY DEF FieldsInv
<1>4. CASE SwapGrids
  <2>1. pc = "swap" /\ pc' = "set_bnd0" /\ Src' = Src /\ Dst' = Dst
    BY <1>4 DEF SwapGrids, Goto, Src, Dst
  <2>2. InPreparation(field[Src], field[Dst])' /\ InTimeStep(field[Src], field[Dst])'
    BY <1>1, <1>2, <1>3, <2>1 DEF InPreparation, InTimeStep, Reading, Computed, Swapped
  <2> QED
    BY <1>1, <2>1, <2>2, FieldsFrom, MarkingStatements DEF Initializing
<1>5. CASE SetBnd0
  <2>1. /\ pc = "set_bnd0" /\ pc' = "set_bnd1"
        /\ p0 = bnd["BND1"] /\ p1 = bnd["BND0"] /\ bnd'["BND0"] = p0 /\ p1' = p1
    BY <1>5 DEF SetBnd0, Goto, qsetbndl, PointersInv, InLocals
  <2>2. Src' = Dst /\ Dst' = Src
    BY <2>1 DEF Src, Dst
  <2>3. InPreparation(field[Src], field[Dst])' /\ InTimeStep(field[Src], field[Dst])'
    BY <1>1, <1>2, <1>3, <2>1, <2>2 DEF InPreparation, InTimeStep, Reading, Computed, Swapped
  <2> QED
    BY <1>1, <2>1, <2>3, FieldsFrom, MarkingStatements DEF Initializing
<1>6. CASE SetBnd1
  <2>1. /\ pc = "set_bnd1" /\ pc' \in {"show_step", "next"}
        /\ bnd'["BND0"] = bnd["BND0"] /\ bnd'["BND1"] = p1
    BY <1>6, FollowingIs DEF SetBnd1, Goto, qsetbndl, PointersInv
  <2>2. Src' = Src /\ Dst' = Dst
    BY <2>1 DEF Src, Dst
  <2>3. InPreparation(field[Src], field[Dst])' /\ InTimeStep(field[Src], field[Dst])'
    BY <1>1, <1>2, <1>3, <2>1, <2>2 DEF InPreparation, InTimeStep, Reading, Computed, Swapped
  <2> QED
    BY <1>1, <2>1, <2>3, FieldsFrom, MarkingStatements DEF Initializing
<1> QED
  BY <1>4, <1>5, <1>6

(* The head of the loop: the grid that was new is the one of the step before.     *)
LEMMA NextStepFields ==
  ASSUME PointersInv, FieldsInv, NextStep
  PROVE  FieldsInv'
<1>1. /\ pc = "next" /\ pc' = Head(param, t + 1) /\ param' = param
      /\ heap' = heap /\ t' = t + 1 /\ bnd' = bnd /\ p1' = p1 /\ field' = field
  BY FollowingIs DEF NextStep, GoOn, Goto
<1>2. /\ pc' \in {"show_final", "inout", "collide"} /\ (pc' = "collide" => param.simType # "CHANNEL")
      /\ Src' = Src /\ Dst' = Dst
  <2>1. pc' \in {"show_final", "inout", "collide"} /\ (pc' = "collide" => param.simType # "CHANNEL")
    BY <1>1, HeadIs
  <2> QED
    BY <1>1, <2>1 DEF Src, Dst
<1>3. /\ t \in Nat \ {0} /\ t' \in Nat \ {0} /\ t' # 1 /\ t' - 1 = t /\ t' - 2 = t - 1
  BY <1>1 DEF FieldsInv
<1>4. InTimeStep(field[Src], field[Dst])
  BY DEF FieldsInv
<1>5. Obstacles' = Obstacles /\ Fixed' = Fixed
  BY <1>1 DEF Obstacles, Fixed
<1>6. InTimeStep(field[Src], field[Dst])'
  BY <1>1, <1>2, <1>3, <1>4, <1>5 DEF InTimeStep, Reading, Computed, Swapped
<1>7. InPreparation(field[Src], field[Dst])'
  BY <1>2 DEF InPreparation
<1> QED
  BY <1>1, <1>2, <1>3, <1>6, <1>7, FieldsFrom, MarkingStatements DEF Initializing, FieldsInv, Field

(* Before and after the work on the grids.                                     *)
LEMMA OtherFields ==
  ASSUME PointersInv, FieldsInv,
         process_specific_init \/ AllocateGrid \/ ReadGrids \/ FreeGrid \/ process_specific_finish
  PROVE  FieldsInv'
<1>1. /\ param' = param /\ t' = t /\ field' = field
      /\ param' \in Params /\ t' \in Nat \ {0} /\ field' \in [Grids -> Field]
  BY DEF process_specific_init, AllocateGrid, ReadGrids, FreeGrid, process_specific_finish,
         Goto, GoOn, FieldsInv, Field
<1>2. heap' \subseteq Grids
  BY DEF process_specific_init, AllocateGrid, ReadGrids, FreeGrid, process_specific_finish, FieldsInv
<1>3. pc' \in {"undefined", "allocate_src", "allocate_dst", "initialize_src", "exited",
              "free_p0", "free_p1", "finish", "end"}
  BY FollowingIs DEF process_specific_init, AllocateGrid, ReadGrids, FreeGrid,
                     process_specific_finish, Goto, GoOn
<1>4. t' = 1 \/ pc' \notin {"init", "allocate_src", "allocate_dst", "show_initial"}
                          \cup Initializing \cup (Marking \ {"inout"})
  <2>1. CASE process_specific_init \/ AllocateGrid
    BY <1>1, <2>1 DEF process_specific_init, AllocateGrid, FieldsInv
  <2>2. CASE ReadGrids \/ FreeGrid \/ process_specific_finish
    BY <2>2, MarkingStatements DEF ReadGrids, FreeGrid, process_specific_finish, Goto, Initializing
  <2> QED
    BY <2>1, <2>2
<1>5. InPreparation(field[Src], field[Dst])' /\ InTimeStep(field[Src], field[Dst])'
  BY <1>3 DEF InPreparation, InTimeStep, Reading, Computed, Swapped
<1> QED
  BY <1>1, <1>2, <1>4, <1>5, FieldsFrom

LEMMA InitFields == Init => FieldsInv
<1> SUFFICES ASSUME Init PROVE FieldsInv
  OBVIOUS
<1>1. Raw \in Field
  BY DEF Raw, Field
<1>2. field \in [Grids -> Field]
  BY <1>1 DEF Init
<1> QED
  BY <1>2 DEF Init, FieldsInv, Field, InPreparation, InTimeStep, Reading, Computed, Swapped

LEMMA NextFields == PointersInv /\ FieldsInv /\ [Next]_vars => FieldsInv'
<1> SUFFICES ASSUME PointersInv, FieldsInv, [Next]_vars PROVE FieldsInv'
  OBVIOUS
<1>1. CASE UNCHANGED vars
  <2>1. Src' = Src /\ Dst' = Dst
    BY <1>1 DEF vars, Src, Dst
  <2> QED
    BY <1>1, <2>1 DEF vars, FieldsInv, InPreparation, InTimeStep, Obstacles, Fixed
<1> QED
  BY <1>1, PrepareFields, CollideFields, SwapFields, ShowFields, NextStepFields, OtherFields DEF Next

(* The registers, the locals, the heap and what the grids hold are those that the  *)
(* point of the program asks for, in every reachable state.                    *)
THEOREM Invariant == Spec => []LbmInv
  BY InitFields, NextFields, PointersAlways, PTL DEF Spec, LbmInv

(* Each time step reads the grid of the step before and writes the other one,      *)
(* for every number of steps, whichever registers exchanged pointers before.   *)
THEOREM StepsAlternate == Spec => []GridsInStep
<1>1. LbmInv => GridsInStep
  <2> SUFFICES ASSUME PointersInv, FieldsInv, pc = "collide"
               PROVE  GridsInStep
    BY DEF LbmInv, GridsInStep
  <2>1. /\ pc \in WithGrids /\ heap \subseteq Grids
        /\ heap = {bnd["BND0"], bnd["BND1"]} /\ bnd["BND0"] # bnd["BND1"]
    BY DEF FieldsInv, PointersInv, InHeap, WithGrids, Statements
  <2>2. Src = bnd["BND0"] /\ Dst = bnd["BND1"]
    BY DEF Src, Dst
  <2>3. InTimeStep(field[Src], field[Dst])
    BY DEF FieldsInv
  <2> QED
    BY <2>1, <2>2, <2>3 DEF GridsInStep, qgetbndl, InTimeStep, Reading, Fixed, Obstacles
<1> QED
  BY <1>1, Invariant, PTL

-----------------------------------------------------------------------------
(* Both programs have the same order of statements and functions on grids.        *)
LEMMA SameProgram ==
  /\ Unpatched!Initializing = Initializing /\ Unpatched!Marking = Marking
  /\ Unpatched!Showing = Showing /\ Unpatched!OfDst = OfDst
  /\ \A p, n : Unpatched!Following(p, n) = Following(p, n)
  /\ \A here, f : Unpatched!Prepared(here, f) = Prepared(here, f)
  /\ \A from, into : Unpatched!Collided(from, into) = Collided(from, into)
  /\ \A p, here, f : Unpatched!Report(p, here, f) = Report(p, here, f)
<1>1. /\ Unpatched!Initializing = Initializing /\ Unpatched!Marking = Marking
      /\ Unpatched!Showing = Showing /\ Unpatched!OfDst = OfDst
      /\ Unpatched!MarkedCells = MarkedCells
  BY DEF Unpatched!Initializing, Initializing, Unpatched!Marking, Marking, Unpatched!MarkedCells,
         MarkedCells, Unpatched!Showing, Showing, Unpatched!OfDst, OfDst
<1>2. \A p, n : Unpatched!Head(p, n) = Head(p, n)
  BY DEF Unpatched!Head, Head
<1>3. \A p, n : Unpatched!Following(p, n) = Following(p, n)
  BY <1>2 DEF Unpatched!Following, Following
<1>4. \A here, f : Unpatched!Prepared(here, f) = Prepared(here, f)
  BY <1>1 DEF Unpatched!Prepared, Prepared
<1>5. \A from, into : Unpatched!Collided(from, into) = Collided(from, into)
  BY DEF Unpatched!Collided, Collided
<1>6. \A p, here, f : Unpatched!Report(p, here, f) = Report(p, here, f)
  BY DEF Unpatched!Report, Report
<1> QED
  BY <1>1, <1>3, <1>4, <1>5, <1>6

(* At a statement of both programs, the pointers are the registers.               *)
LEMMA AtStatement ==
  ASSUME pc \in Entering
  PROVE  Point = pc /\ Src = bnd["BND0"] /\ Dst = bnd["BND1"]
  BY MarkingStatements DEF Entering, Statements, Initializing, Showing, Point, Src, Dst

(* The same after a step that leads to one.                                       *)
LEMMA AtNextStatement ==
  ASSUME pc' \in Entering
  PROVE  Point' = pc' /\ Src' = bnd'["BND0"] /\ Dst' = bnd'["BND1"]
  BY MarkingStatements DEF Entering, Statements, Initializing, Showing, Point, Src, Dst

(* The initial states are initial states of the program before the patch.      *)
LEMMA InitRefines == Init => Unpatched!GridInit
  BY DEF Init, Unpatched!GridInit, Point, Src, Dst, Cleared, Unpatched!Raw, Raw, Unpatched!NoReport, NoReport

(* Every step is a step of the program before the patch, or changes nothing.    *)
LEMMA NextRefines ==
  PointersInv /\ [Next]_vars => [Unpatched!GridNext]_(Unpatched!gridVars)
<1> SUFFICES ASSUME PointersInv, [Next]_vars
             PROVE  Unpatched!GridNext \/ UNCHANGED Unpatched!gridVars
  OBVIOUS
<1> USE DEF Unpatched!gridVars
<1>1. CASE process_specific_init
  BY <1>1 DEF process_specific_init, Goto, Point, Src, Dst
<1>2. CASE AllocateGrid
  <2>1. pc \in Entering
    BY <1>2 DEF AllocateGrid, Entering, Statements
  <2>2. CASE Goto("exited") /\ UNCHANGED <<heap, bnd>>
    <3>1. Point' = "exited" /\ Src' = bnd'["BND0"] /\ Dst' = bnd'["BND1"]
      BY <2>2 DEF Goto, Point, Src, Dst
    <3>2. Unpatched!AllocateGrid
      BY <1>2, <2>1, <2>2, <3>1, AtStatement, SameProgram
      DEF AllocateGrid, Goto, Unpatched!AllocateGrid
    <3> QED
      BY <3>2 DEF Unpatched!GridNext
  <2>3. ASSUME NEW ptr \in Grids \ heap,
               heap' = heap \cup {ptr},
               qsetbndl(IF pc = "allocate_src" THEN "BND0" ELSE "BND1", ptr),
               GoOn
        PROVE  Unpatched!GridNext
    <3>1. pc' \in Entering
      BY <1>2, <2>3, FollowingStatement DEF AllocateGrid, GoOn, Goto, Statements
    <3>2. CASE pc = "allocate_src"
      <4>1. bnd'["BND0"] = ptr /\ bnd'["BND1"] = bnd["BND1"]
        BY <2>3, <3>2 DEF qsetbndl, PointersInv
      <4>2. Unpatched!AllocateGrid
        BY <1>2, <2>1, <2>3, <3>1, <3>2, <4>1, AtStatement, AtNextStatement, SameProgram
        DEF AllocateGrid, GoOn, Goto, Unpatched!AllocateGrid, Unpatched!Goto
      <4> QED
        BY <4>2 DEF Unpatched!GridNext
    <3>3. CASE pc = "allocate_dst"
      <4>1. bnd'["BND1"] = ptr /\ bnd'["BND0"] = bnd["BND0"]
        BY <2>3, <3>3 DEF qsetbndl, PointersInv
      <4>2. Unpatched!AllocateGrid
        BY <1>2, <2>1, <2>3, <3>1, <3>3, <4>1, AtStatement, AtNextStatement, SameProgram
        DEF AllocateGrid, GoOn, Goto, Unpatched!AllocateGrid, Unpatched!Goto
      <4> QED
        BY <4>2 DEF Unpatched!GridNext
    <3> QED
      BY <1>2, <3>2, <3>3 DEF AllocateGrid
  <2> QED
    BY <1>2, <2>2, <2>3 DEF AllocateGrid
<1>3. CASE Prepare
  <2>1. pc \in Entering /\ pc' \in Entering
    BY <1>3, FollowingStatement DEF Prepare, GoOn, Goto, Entering, Statements
  <2>2. Unpatched!Prepare
    BY <1>3, <2>1, AtStatement, AtNextStatement, SameProgram
    DEF Prepare, GoOn, Goto, qgetbndl, Unpatched!Prepare, Unpatched!Goto
  <2> QED
    BY <2>2 DEF Unpatched!GridNext
<1>4. CASE Collide
  <2>1. pc \in Entering /\ pc' \in Entering
    BY <1>4, FollowingStatement DEF Collide, GoOn, Goto, Entering, Statements
  <2>2. Unpatched!Collide
    BY <1>4, <2>1, AtStatement, AtNextStatement, SameProgram
    DEF Collide, GoOn, Goto, qgetbndl, Unpatched!Collide, Unpatched!Goto
  <2> QED
    BY <2>2 DEF Unpatched!GridNext
<1>5. CASE SwapGrids
  BY <1>5 DEF SwapGrids, Goto, Point, Src, Dst
<1>6. CASE SetBnd0
  <2>1. /\ Point = "swap" /\ Src = bnd["BND0"] /\ Dst = bnd["BND1"]
        /\ Point' = Following(param, t).swap /\ Src' = bnd'["BND0"] /\ Dst' = p1'
    BY <1>6 DEF SetBnd0, Goto, Point, Src, Dst
  <2>2. bnd'["BND0"] = p0 /\ p0 = bnd["BND1"] /\ p1' = bnd["BND0"]
    BY <1>6 DEF SetBnd0, qsetbndl, PointersInv, InLocals
  <2>3. Unpatched!SwapGrids
    BY <1>6, <2>1, <2>2, SameProgram DEF SetBnd0, Goto, Unpatched!SwapGrids, Unpatched!Goto
  <2> QED
    BY <2>3 DEF Unpatched!GridNext
<1>7. CASE SetBnd1
  <2>1. pc' \in Entering
    BY <1>7, FollowingSwap DEF SetBnd1, Goto, Entering
  <2>2. Point = Following(param, t).swap /\ Src = bnd["BND0"] /\ Dst = p1
    BY <1>7 DEF SetBnd1, Point, Src, Dst
  <2>3. bnd'["BND0"] = bnd["BND0"] /\ bnd'["BND1"] = p1
    BY <1>7 DEF SetBnd1, qsetbndl, PointersInv
  <2> QED
    BY <1>7, <2>1, <2>2, <2>3, AtNextStatement DEF SetBnd1, Goto
<1>8. CASE Show
  <2>1. pc \in Entering /\ pc' \in Entering
    BY <1>8, FollowingStatement DEF Show, GoOn, Goto, Entering, Statements
  <2>2. Unpatched!Show
    BY <1>8, <2>1, AtStatement, AtNextStatement, SameProgram
    DEF Show, GoOn, Goto, qgetbndl, Unpatched!Show, Unpatched!Goto
  <2> QED
    BY <2>2 DEF Unpatched!GridNext
<1>9. CASE NextStep
  <2>1. pc \in Entering /\ pc' \in Entering
    BY <1>9, FollowingStatement DEF NextStep, GoOn, Goto, Entering, Statements
  <2>2. Unpatched!NextStep
    BY <1>9, <2>1, AtStatement, AtNextStatement, SameProgram
    DEF NextStep, GoOn, Goto, Unpatched!NextStep, Unpatched!Goto
  <2> QED
    BY <2>2 DEF Unpatched!GridNext
<1>10. CASE ReadGrids
  BY <1>10 DEF ReadGrids, Goto, Point, Src, Dst
<1>11. CASE FreeGrid
  <2>1. CASE pc = "free_p0"
    <3>1. /\ Point = "free_src" /\ Src = bnd["BND0"] /\ Dst = bnd["BND1"]
          /\ Point' = "free_dst" /\ Src' = NULL /\ Dst' = bnd["BND1"]
      BY <1>11, <2>1 DEF FreeGrid, Goto, Point, Src, Dst
    <3>2. Unpatched!FreeGrid
      BY <1>11, <2>1, <3>1, SameProgram
      DEF FreeGrid, Goto, PointersInv, InLocals, Unpatched!FreeGrid, Unpatched!Goto, Following
    <3> QED
      BY <3>2 DEF Unpatched!GridNext
  <2>2. CASE pc = "free_p1"
    <3>1. /\ Point = "free_dst" /\ Src = NULL /\ Dst = bnd["BND1"]
          /\ Point' = "end" /\ Src' = NULL /\ Dst' = NULL
      BY <1>11, <2>2 DEF FreeGrid, Goto, Point, Src, Dst
    <3>2. Unpatched!FreeGrid
      BY <1>11, <2>2, <3>1, SameProgram
      DEF FreeGrid, Goto, PointersInv, InLocals, Unpatched!FreeGrid, Unpatched!Goto, Following
    <3> QED
      BY <3>2 DEF Unpatched!GridNext
  <2> QED
    BY <1>11, <2>1, <2>2 DEF FreeGrid
<1>12. CASE process_specific_finish
  BY <1>12 DEF process_specific_finish, Goto, Point, Src, Dst
<1>13. CASE UNCHANGED vars
  BY <1>13 DEF vars, Point, Src, Dst
<1> QED
  BY <1>1, <1>2, <1>3, <1>4, <1>5, <1>6, <1>7, <1>8, <1>9, <1>10, <1>11, <1>12, <1>13 DEF Next

(* The patched program implements the one before the patch.                    *)
THEOREM Refinement == Spec => ImplementsUnpatched
  BY InitRefines, NextRefines, PointersAlways, PTL
  DEF Spec, ImplementsUnpatched, Unpatched!GridSpec
=============================================================================
