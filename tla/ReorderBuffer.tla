--------------------------- MODULE ReorderBuffer ---------------------------
(***************************************************************************)
(* What the threads of one writeImage promise together: blocks become      *)
(* ready in any order, are stored in the order of their ids, and no more   *)
(* than Capacity of them wait in memory ("total memory = numThreads *      *)
(* blockSizeBytes * numBlocksPerQueue", src/klb_imageIO.cpp:1279).  The    *)
(* call returns when all are stored, or refuses before any is ready.       *)
(***************************************************************************)
EXTENDS Naturals, FiniteSets

CONSTANTS NumBlocks,    \* the blocks are 0 .. NumBlocks - 1
          Capacity      \* compressed blocks held in memory at once

VARIABLES ready,        \* the blocks announced so far
          stored,       \* blocks 0 .. stored - 1 have been stored
          returned      \* the call is over

vars == <<ready, stored, returned>>

Init == ready = {} /\ stored = 0 /\ returned = FALSE

BlockReady(b) ==
    /\ ~returned
    /\ b \notin ready
    /\ Cardinality(ready) - stored < Capacity
    /\ ready' = ready \cup {b}
    /\ UNCHANGED <<stored, returned>>

StoreNext ==
    /\ stored \in ready
    /\ stored' = stored + 1
    /\ UNCHANGED <<ready, returned>>

Return ==
    /\ ~returned
    /\ stored = NumBlocks
    /\ returned' = TRUE
    /\ UNCHANGED <<ready, stored>>

Refuse ==
    /\ ~returned
    /\ ready = {}
    /\ returned' = TRUE
    /\ UNCHANGED <<ready, stored>>

Next == (\E b \in 0 .. NumBlocks - 1 : BlockReady(b)) \/ StoreNext \/ Return \/ Refuse

Spec == Init /\ [][Next]_vars
=============================================================================
