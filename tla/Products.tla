------------------------------ MODULE Products ------------------------------
(***************************************************************************)
(* The number of voxels of a block, a region or an image: the product of   *)
(* its sizes along all dimensions.                                         *)
(***************************************************************************)
EXTENDS Integers, Sequences

ProductOf(sizes) ==
    LET p[ii \in 0 .. Len(sizes)] == IF ii = 0 THEN 1 ELSE p[ii - 1] * sizes[ii]
    IN  p[Len(sizes)]
=============================================================================
