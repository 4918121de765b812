--------------------------- MODULE MCReadPipeline ---------------------------
(* ReadPipeline for TLC.                                                   *)
EXTENDS ReadPipeline

\* Files in which every block is where the table says: whole, or stored empty.
Complete == [Blocks -> {"whole", "empty"}]

\* Files that end too early: whole up to some block, of which a part may be there.
Truncated ==
    {[b \in Blocks |-> IF b < n THEN "whole" ELSE IF b = n THEN k ELSE "missing"] :
        n \in Blocks, k \in {"cut", "missing"}}

AnyFile == Complete \cup Truncated
AnyWant == SUBSET Blocks
=============================================================================
