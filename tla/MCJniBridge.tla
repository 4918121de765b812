---------------------------- MODULE MCJniBridge ----------------------------
(* JniBridge for TLC: the constants are model values.                      *)
EXTENDS JniBridge
=============================================================================
