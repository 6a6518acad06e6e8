--------------------------- MODULE MCLivePipeline ---------------------------
(***************************************************************************)
(* Instances of LivePipeline for TLC.  Its state space is finite: the      *)
(* budget is the only bound.                                               *)
(***************************************************************************)
EXTENDS LivePipeline
=============================================================================
