------------------------- MODULE MCCircularDequeue -------------------------
(* CircularDequeue for TLC: the sizes are given in the .cfg files.         *)
EXTENDS CircularDequeue
=============================================================================
