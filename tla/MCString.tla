------------------------------ MODULE MCString ------------------------------
(***************************************************************************)
(* Values of the constants for the run of SimplexString.                   *)
(***************************************************************************)
EXTENDS SimplexString

\* Both bytes, and two ints outside their range that convert to different bytes.
SomeInts == {0, 1, 2, -1}
=============================================================================
