----------------------------- MODULE FrameSlot ------------------------------
(***************************************************************************)
(* What the inference promises: a slot for one frame.  A frame comes in    *)
(* when the slot is empty and is otherwise dropped; each that came in is   *)
(* worked on, and none twice.                                              *)
(***************************************************************************)
EXTENDS Integers

CONSTANT Frames \* numbered from 1

VARIABLES
  slot, \* the frame in the slot, or 0
  seen  \* the frames that were worked on

Init == slot = 0 /\ seen = {}

Accept == /\ slot = 0
          /\ slot' \in Frames \ seen
          /\ UNCHANGED seen

Finish == /\ slot # 0
          /\ seen' = seen \cup {slot}
          /\ slot' = 0

Next == Accept \/ Finish

Spec == Init /\ [][Next]_<<slot, seen>>
=============================================================================
