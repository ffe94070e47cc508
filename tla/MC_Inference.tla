---------------------------- MODULE MC_Inference ----------------------------
(***************************************************************************)
(* Four frames over one restart, one failure.                              *)
(***************************************************************************)
EXTENDS InferenceProps
=============================================================================
