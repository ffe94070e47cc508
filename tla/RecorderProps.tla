---------------------------- MODULE RecorderProps ----------------------------
(***************************************************************************)
(* What the recorder keeps to while init, deinit, the record thread and    *)
(* clients interleave.                                                     *)
(***************************************************************************)
EXTENDS StreamRecorder

\* The record thread's wait is safe and short.  The signal is not destroyed
\* while the thread may still wait on it: deinit joins the thread first.  And
\* deinit never waits out a file_duration: run is cleared before the signal is
\* given, so a thread that waits while deinit joins it finds the give, unless
\* a client started recording in between.
NoSleepThroughDeinit ==
  /\ ~Threadless => signal # NoSignal
  /\ \A c \in Callers : callPc[c] = "join" /\ recPc = "wait" /\ ~started => signal = 1

\* Deinit leaves no file open: without a record thread (none could be created,
\* it was joined, or it has seen a stop) a file is open only if a client opened
\* it when there was none.
DeinitClosesUnless == Threadless /\ mux = "open" => orphan

\* A file that is open although recording is off gets closed, at the latest by
\* the record thread when its wait times out; only a file that a client opened
\* without a record thread stays open.
StopTakesEffect ==
  run = 0 /\ mux = "open" ~> run = 1 \/ mux = "closed" \/ orphan \/ off # "none"

\* Deinit gets past its join of the record thread, unless a client starts
\* recording meanwhile, the thread could not be created and is joined all the
\* same, or another caller is inside init or deinit.
DeinitReturnsUnless ==
  \A c \in Callers :
    callPc[c] = "join" ~> callPc[c] = "manager_deinit" \/ started \/ stale \/ off # "none"
=============================================================================
