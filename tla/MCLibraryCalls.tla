-------------------------- MODULE MCLibraryCalls --------------------------
(* LibraryCalls for TLC: a small image, and one with more blocks, more     *)
(* pixels and two channels.                                                *)
EXTENDS LibraryCalls, TLC

CONSTANTS small, large

OfSizes(s, l) == (small :> s) @@ (large :> l)

MCImages == {small, large}
MCNumBlocksOf == OfSizes(1, 2) @@ (NoImage :> 0)
MCPlane == OfSizes(1, 2)
MCPlanes == OfSizes(2, 2)
MCChannels == OfSizes(1, 2)

Symmetric == Permutations(Headers) \cup Permutations(Addresses) \cup Permutations(Files)
=============================================================================
