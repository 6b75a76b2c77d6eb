----------------------------- MODULE MCFixture -----------------------------
(***************************************************************************)
(* Values of the constants for the runs of StringFixture: an even and an   *)
(* odd size, of which memmove moves a half.                                *)
(***************************************************************************)
EXTENDS StringFixture

SomeInts == {0, 1}
TwoSizes == {3, 4}
=============================================================================
