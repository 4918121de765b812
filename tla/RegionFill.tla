----------------------------- MODULE RegionFill -----------------------------
(***************************************************************************)
(* What reading promises of the caller's buffer (readImage, readImageFull  *)
(* in src/klb_imageIO.h): pixels appear in it, each once and each the one  *)
(* that belongs there, in any order and any number at a time.              *)
(***************************************************************************)
CONSTANTS Junk          \* what the buffer holds before

VARIABLES want,         \* the pixel that belongs at each place
          out           \* the caller's buffer

vars == <<want, out>>

Init == out = [k \in DOMAIN want |-> Junk]

Fill ==
    /\ want' = want
    /\ DOMAIN out' = DOMAIN out
    /\ \A k \in DOMAIN out :
          out'[k] = out[k] \/ (out[k] = Junk /\ out'[k] = want[k])

Spec == Init /\ [][Fill]_vars
=============================================================================
