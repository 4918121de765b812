--------------------------- MODULE MCJavaRegions ---------------------------
(* JavaRegions for TLC: arrays hold few pixels, so that small images are   *)
(* cut into cells, along each of their dimensions or, if they are too      *)
(* short, not at all.                                                      *)
EXTENDS JavaRegions

CONSTANTS byte, short

MCTypes == {byte, short}
MCBytesOf == [t \in MCTypes |-> IF t = byte THEN 1 ELSE 2]

\* Images with up to three dimensions longer than 1, the last of them a time.
MCImageSizes ==
    {n \in [Dims -> 1 .. 4] : /\ n[0] <= 3 /\ n[1] <= 3 /\ n[2] = 1 /\ n[3] <= 2
                              /\ \E d \in Dims : n[d] > 1}

Boxes(n) ==
    LET Corners == {p \in [Dims -> 0 .. 3] : \A d \in Dims : p[d] < n[d]}
    IN  {R \in [min : Corners, max : Corners] :
            /\ \A d \in Dims : R.min[d] <= R.max[d]
            /\ \E d \in Dims : R.min[d] < R.max[d]}

\* Regions of which no dimension is squeezed out unless the image's is.
ThickBoxes(n) ==
    {R \in Boxes(n) : \A d \in Dims : n[d] = 1 \/ R.min[d] < R.max[d]}
=============================================================================
