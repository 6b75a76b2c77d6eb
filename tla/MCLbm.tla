------------------------------- MODULE MCLbm -------------------------------
(***************************************************************************)
(* Values of the constants for the run of Lbm: every kind of simulation,   *)
(* of no step to five, with a report every other step.                     *)
(***************************************************************************)
EXTENDS Lbm

CONSTANTS g1, g2

TwoGrids == {g1, g2}
AllParams ==
  [nTimeSteps : 0 .. 5, simType : {"CHANNEL", "LDC"},
   obstacle : BOOLEAN, action : {"NOTHING", "COMPARE", "STORE"}]
=============================================================================
