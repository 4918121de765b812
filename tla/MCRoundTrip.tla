---------------------------- MODULE MCRoundTrip ----------------------------
(* RoundTrip for TLC: sizes that blocks divide and sizes they do not, and  *)
(* block sizes that are cut down to the image's.                           *)
EXTENDS RoundTrip

CONSTANTS ImageMax,     \* the largest size of a dimension of the image,
          BlockMax      \* and of a block

MCImageSizes == {n \in [Dims -> 1 .. ImageMax] : n[0] = ImageMax}
MCBlockSizes == {n \in [Dims -> 1 .. BlockMax] : n[0] > 1}

\* Every box in the image: a region can begin and end at a border, inside a block,
\* and between two.
Corners(n) == {p \in [Dims -> 0 .. ImageMax - 1] : \A ii \in Dims : p[ii] < n[ii]}
Boxes(n) ==
    {R \in [LB : Corners(n), UB : Corners(n)] : \A ii \in Dims : R.LB[ii] <= R.UB[ii]}

\* The slices of an image along each of its dimensions are boxes, too.
Slices(n) == UNION {{defineSlice(v, d, n) : v \in 0 .. n[d] - 1} : d \in Dims}

\* Boxes that end one voxel behind the image, in one dimension or in all.
Overhanging(n) ==
    {[LB |-> first, UB |-> [ii \in Dims |-> IF ii \in behind THEN n[ii] ELSE n[ii] - 1]] :
        first \in Corners(n), behind \in {{0}, {DataDims - 1}, Dims}}

MCRegions(n) == Boxes(n) \cup Slices(n) \cup Overhanging(n)
=============================================================================
