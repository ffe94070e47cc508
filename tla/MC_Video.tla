------------------------------ MODULE MC_Video ------------------------------
(***************************************************************************)
(* Two clients that restart the video, one of which takes photos; one      *)
(* block that fails.                                                       *)
(***************************************************************************)
EXTENDS VideoProps
=============================================================================
