--------------------------- MODULE InferenceProps ---------------------------
(***************************************************************************)
(* What the inference promises its callers, and when it stops.             *)
(***************************************************************************)
EXTENDS Inference

\* Whether one vi_1 thread calls or, after a restart, two: every frame that is
\* taken in is worked on before another is taken, and none twice.  A frame is in
\* the slot from its copy to the end of the inference.  (With two threads the
\* frames need not come in the order the camera took them: the one that has the
\* later frame may get the lock first.)
Slot == INSTANCE FrameSlot WITH
          slot <- IF recv /\ lock \in {Nobody, Npu} THEN input ELSE 0,
          seen <- worked
FrameSlotSpec == Slot!Spec

\* The lock is held by a thread that will give it back, unless the picture
\* could not be written or a call of the inference failed; and the npu thread
\* works only on buffers that are there.
NetworkSafe ==
  /\ lock \in Grabbers => grab[lock] \in {"save", "copy"}
                          \/ broken \cap {"save", "crash"} # {}
  /\ lock = Npu => npu = "work" \/ "infer" \in broken
  /\ npu = "work" => lock = Npu /\ owned

\* main's exit gets past network_exit and stops the video, unless a picture that
\* could not be written has left the npu thread waiting for the lock, or
\* rk_storage_deinit, which lies between the two, does not return.  (The npu
\* thread that failed in an inference has ended, and is joined all the same.)
ExitStopsVideo ==
  main = "join" ~> main = "end" \/ broken \cap {"save", "crash", "storage"} # {}
=============================================================================
