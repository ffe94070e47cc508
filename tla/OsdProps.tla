------------------------------ MODULE OsdProps ------------------------------
(***************************************************************************)
(* What holds of the on-screen display as long as restarts do not cross.   *)
(***************************************************************************)
EXTENDS OsdServer

Running == {k \in Threads : clock[k] \in {"create", "loop", "read", "wait", "change"}}

\* Every join finds its thread unless the clock was switched off at an earlier
\* init, or its thread could not be created; no thread waits on a signal that is freed, and no callback is
\* missing when it is called, unless two restarts have crossed.
OsdSafe ==
  /\ TypeOK
  /\ "nothread" \in why => "noclock" \in cause
  /\ why \cap {"freed", "null"} # {} => "crossed" \in cause

\* Between restarts the texts are on the picture and one thread keeps the
\* clock, in a region that is there once it has begun; while a restart is
\* between its halves there is no thread.  Crossed restarts break it: two
\* clocks run, of which the next deinit ends one, and the second creation of a
\* region removes it.
ClockKept ==
  cause = {} /\ why = {} =>
    \/ \E c \in Callers : pc[c] \notin {"idle", "deinit"} \cup Between
    \/ (\E c \in Callers : pc[c] \in Between) /\ Running = {} /\ regions = {} /\ ~signal
    \/ \E k \in Running :
         /\ Running = {k} /\ handle = k /\ run /\ signal
         /\ regions = {"text"} \cup (IF clock[k] = "create" THEN {} ELSE {"clock"})

\* A restart returns, unless the mutex was kept because no signal could be had.
RestartReturns ==
  \A c \in Callers :
    pc[c] = "deinit" ~> pc[c] = "idle" \/ why # {} \/ "signal" \in cause
=============================================================================
