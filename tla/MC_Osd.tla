------------------------------- MODULE MC_Osd -------------------------------
(***************************************************************************)
(* Two clients and the video, four restarts among them, one signal that    *)
(* cannot be had, the clock switched off and on again.                     *)
(***************************************************************************)
EXTENDS OsdProps
=============================================================================
