----------------------------- MODULE MCTraverse ----------------------------
(***************************************************************************)
(* Values of the constants for the runs of Traverse.                       *)
(***************************************************************************)
EXTENDS Traverse

\* Memory of 24 bytes out of 32; buffers that start in it, at its edges or outside,
\* of no byte to more than there are.
Memory == 4 .. 27
SomeBuffers ==
  [src : {3, 4, 5, 12, 20, 26, 28}, sz : {0, 1, 2, 3, 4, 7, 9, 12, 16, 17, 20, 31}]

\* Stack words: a readable address and its successor, which ends the loop at once.
SomeJunk == {9, 10}
=============================================================================
