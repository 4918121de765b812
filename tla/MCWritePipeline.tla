-------------------------- MODULE MCWritePipeline --------------------------
(* WritePipeline for TLC: the sizes are given in the .cfg files.           *)
EXTENDS WritePipeline
=============================================================================
