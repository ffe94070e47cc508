--------------------------- MODULE StreamRecorder ---------------------------
(***************************************************************************)
(* Recording the main stream: the record thread that starts a new file     *)
(* every file_duration seconds, the init and deinit of the storage module  *)
(* that start and stop it, and clients of the socket server that start and *)
(* stop recording.  Main calls init at boot and deinit at its exit, and a  *)
(* client that changes the video calls deinit and init again.              *)
(*                                                                         *)
(* Nothing is locked: all share g_record_run_ and the muxer, a closed      *)
(* library of which only whether its file is open is modelled.  The signal *)
(* is the semaphore of common.c, with at most one give pending.            *)
(*                                                                         *)
(* Two callers inside init and deinit at once destroy and join the same    *)
(* things twice; the model ends there (off = "crossed").                   *)
(***************************************************************************)
EXTENDS Integers

CONSTANTS Clients,  \* threads of the socket server
          Main      \* the thread that runs main

ASSUME MainAssumption == Main \notin Clients

Callers == Clients \cup {Main}
NoSignal == -1

VARIABLES
  enable,   \* the parameter storage.0:enable; an import of parameters reboots
  run,      \* g_record_run_
  mux,      \* the muxer's file: "open" or "closed"
  signal,   \* g_storage_signal: NoSignal, or the value of the semaphore
  handle,   \* g_sd_phandle is set
  stale,    \* record_thread_id names no thread: pthread_create failed
  recPc,    \* the record thread
  callPc,   \* where each caller is
  started,  \* history: a start went on since deinit stored 0 in run
  orphan,   \* history: a start opened the file with no record thread to close it
  off       \* history: "crossed" or "killed" once the model ends

shared == <<enable, run, mux, signal, handle, stale>>
history == <<started, orphan, off>>
vars == <<shared, recPc, callPc, history>>

Threadless == recPc \in {"none", "done"}

\* Where a caller is in the code of init and deinit.
Initialising == {"manager_init", "muxer", "run", "thread"}
Finishing    == {"give", "join", "destroy", "manager_deinit"}
Inside(c)    == callPc[c] \in Initialising \cup Finishing
Alone(c)     == \A d \in Callers \ {c} : ~Inside(d)

TypeOK ==
  /\ enable \in BOOLEAN
  /\ run \in {0, 1}
  /\ mux \in {"open", "closed"}
  /\ signal \in {NoSignal, 0, 1}
  /\ handle \in BOOLEAN /\ stale \in BOOLEAN
  /\ recPc \in {"none", "loop", "close", "open", "wait", "exit", "done"}
  /\ callPc \in [Callers -> Initialising \cup Finishing \cup
               {"boot", "up", "down", "idle", "start_open", "start_run", "stop_run", "restart"}]
  /\ started \in BOOLEAN /\ orphan \in BOOLEAN
  /\ off \in {"none", "crossed", "killed"}

\* The server accepts clients before main has called rk_storage_init.
Init ==
  /\ enable \in BOOLEAN
  /\ run = 0 /\ mux = "closed" /\ signal = NoSignal
  /\ handle = FALSE /\ stale = FALSE
  /\ recPc = "none"
  /\ callPc = [c \in Callers |-> IF c = Main THEN "boot" ELSE "idle"]
  /\ started = FALSE /\ orphan = FALSE /\ off = "none"

At(c, from, to) == callPc[c] = from /\ callPc' = [callPc EXCEPT ![c] = to]

-----------------------------------------------------------------------------
(* rk_storage_init and rk_storage_muxer_init_by_id.                        *)

\* What is left of init: main waits for its end, a client's restart is over.
Returned(c) == IF c = Main THEN "up" ELSE "idle"

InitEnter(c) ==
  /\ Alone(c)
  /\ At(c, IF c = Main THEN "boot" ELSE "restart", "manager_init")
  /\ UNCHANGED <<shared, recPc, history>>

\* The handle is there already, or something fails: no recorder is set up.
InitManager(c) ==
  /\ \/ At(c, "manager_init", Returned(c)) /\ handle' = handle
     \/ At(c, "manager_init", "muxer") /\ ~handle /\ handle' = TRUE
  /\ UNCHANGED <<enable, run, mux, signal, stale, recPc, history>>

\* rk_signal_create.
NewSignal == 0

\* The folder cannot be made, recording is not enabled or there is no
\* semaphore: no record thread.
InitMuxer(c) ==
  /\ \/ At(c, "muxer", Returned(c)) /\ signal' = signal
     \/ At(c, "muxer", Returned(c)) /\ enable /\ signal' = NoSignal
     \/ At(c, "muxer", "run") /\ enable /\ signal' = NewSignal
  /\ UNCHANGED <<enable, run, mux, handle, stale, recPc, history>>

InitRun(c) ==
  /\ At(c, "run", "thread")
  /\ run' = 1
  /\ UNCHANGED <<enable, mux, signal, handle, stale, recPc, history>>

\* Nobody looks at what pthread_create returns.
InitThread(c) ==
  /\ At(c, "thread", Returned(c))
  /\ \/ recPc' = "loop" /\ stale' = FALSE
     \/ recPc' = recPc /\ stale' = TRUE
  /\ UNCHANGED <<enable, run, mux, signal, handle, history>>
-----------------------------------------------------------------------------
(* rk_storage_deinit and rk_storage_muxer_deinit_by_id.                    *)

AfterStop == IF enable /\ signal # NoSignal THEN "give" ELSE "manager_deinit"

\* Slip: the thread is woken before it is told to stop.
DeinitStopLate(c) ==
  /\ Alone(c)
  /\ At(c, IF c = Main THEN "up" ELSE "idle", AfterStop)
  /\ started' = FALSE
  /\ UNCHANGED <<shared, recPc, orphan, off>>

DeinitStop(c) ==
  /\ Alone(c)
  /\ At(c, IF c = Main THEN "up" ELSE "idle", AfterStop)
  /\ run' = IF enable THEN 0 ELSE run
  /\ started' = FALSE
  /\ UNCHANGED <<enable, mux, signal, handle, stale, recPc, orphan, off>>

\* Slip: an off-by-one in the limit of rk_signal_give.
GiveNothing(c) ==
  /\ At(c, "give", "join")
  /\ signal' = IF signal < 0 THEN signal + 1 ELSE signal
  /\ UNCHANGED <<enable, run, mux, handle, stale, recPc, history>>

\* rk_signal_give: no more than one give is pending.
Give(c) ==
  /\ At(c, "give", "join")
  /\ signal' = IF signal < 1 THEN signal + 1 ELSE signal
  /\ UNCHANGED <<enable, run, mux, handle, stale, recPc, history>>

Join(c) ==
  /\ ~stale
  /\ recPc = "done"
  /\ At(c, "join", "destroy")
  /\ UNCHANGED <<shared, recPc, history>>

\* pthread_join of a thread that is not there: it returns an error, it kills
\* the process, or (no step) it never returns.
JoinStale(c) ==
  /\ stale
  /\ \/ At(c, "join", "destroy") /\ off' = off
     \/ callPc[c] = "join" /\ callPc' = callPc /\ off' = "killed"
  /\ UNCHANGED <<shared, recPc, started, orphan>>

Destroy(c) ==
  /\ At(c, "destroy", "manager_deinit")
  /\ signal' = NoSignal
  /\ recPc' = IF recPc = "done" THEN "none" ELSE recPc
  /\ UNCHANGED <<enable, run, mux, handle, stale, history>>

\* MountLifecycle tells whether rkipc_storage_manager_deinit returns.
DeinitManager(c) ==
  /\ At(c, "manager_deinit", IF c = Main THEN "down" ELSE "restart")
  /\ handle' = FALSE
  /\ UNCHANGED <<enable, run, mux, signal, stale, recPc, history>>

\* Somebody calls init or deinit while another one is inside.
Cross(c) ==
  /\ callPc[c] \in (IF c = Main THEN {"boot", "up"} ELSE {"idle", "restart"})
  /\ ~Alone(c)
  /\ off' = "crossed"
  /\ UNCHANGED <<shared, recPc, callPc, started, orphan>>
-----------------------------------------------------------------------------
(* rk_storage_record.                                                      *)

RecLoop ==
  /\ recPc = "loop"
  /\ recPc' = IF run = 1 THEN "close" ELSE "exit"
  /\ UNCHANGED <<shared, callPc, history>>

RecClose ==
  /\ recPc = "close"
  /\ mux' = "closed" /\ orphan' = FALSE
  /\ recPc' = "open"
  /\ UNCHANGED <<enable, run, signal, handle, stale, callPc, started, off>>

RecOpen ==
  /\ recPc = "open"
  /\ mux' = "open"
  /\ recPc' = "wait"
  /\ UNCHANGED <<enable, run, signal, handle, stale, callPc, history>>

\* Slip: a wait without a timeout.
RecWaitForGive ==
  /\ recPc = "wait"
  /\ signal > 0 /\ signal' = signal - 1
  /\ recPc' = "loop"
  /\ UNCHANGED <<enable, run, mux, handle, stale, callPc, history>>

\* sem_timedwait takes a give, or times out if there is none.
RecWait ==
  /\ recPc = "wait"
  /\ signal' = IF signal > 0 THEN signal - 1 ELSE signal
  /\ recPc' = "loop"
  /\ UNCHANGED <<enable, run, mux, handle, stale, callPc, history>>

\* Slip: the last file is left open.
RecExitOpen ==
  /\ recPc = "exit"
  /\ recPc' = "done"
  /\ UNCHANGED <<shared, callPc, history>>

RecExit ==
  /\ recPc = "exit"
  /\ mux' = "closed" /\ orphan' = FALSE
  /\ recPc' = "done"
  /\ UNCHANGED <<enable, run, signal, handle, stale, callPc, started, off>>
-----------------------------------------------------------------------------
(* rk_storage_record_start and rk_storage_record_stop, by a client.        *)

StartClose(c) ==
  /\ At(c, "idle", "start_open")
  /\ mux' = "closed" /\ orphan' = FALSE
  /\ UNCHANGED <<enable, run, signal, handle, stale, recPc, started, off>>

StartOpen(c) ==
  /\ At(c, "start_open", "start_run")
  /\ mux' = "open"
  /\ started' = TRUE
  /\ orphan' = Threadless
  /\ UNCHANGED <<enable, run, signal, handle, stale, recPc, off>>

StartRun(c) ==
  /\ At(c, "start_run", "idle")
  /\ run' = 1
  /\ started' = TRUE
  /\ UNCHANGED <<enable, mux, signal, handle, stale, recPc, orphan, off>>

StopClose(c) ==
  /\ At(c, "idle", "stop_run")
  /\ mux' = "closed" /\ orphan' = FALSE
  /\ UNCHANGED <<enable, run, signal, handle, stale, recPc, started, off>>

StopRun(c) ==
  /\ At(c, "stop_run", "idle")
  /\ run' = 0
  /\ UNCHANGED <<enable, mux, signal, handle, stale, recPc, history>>
-----------------------------------------------------------------------------
Startup(c)  == InitEnter(c) \/ InitManager(c) \/ InitMuxer(c) \/ InitRun(c) \/ InitThread(c)
Shutdown(c) == Give(c) \/ Join(c) \/ Destroy(c)
Deinit(c)   == DeinitStop(c) \/ Shutdown(c) \/ JoinStale(c) \/ DeinitManager(c)
Record      == RecLoop \/ RecClose \/ RecOpen \/ RecWait \/ RecExit
Client(c)   == StartClose(c) \/ StartOpen(c) \/ StartRun(c) \/ StopClose(c) \/ StopRun(c)

Next ==
  /\ off = "none"
  /\ \/ Record
     \/ \E c \in Callers : Startup(c) \/ Deinit(c) \/ Cross(c)
     \/ \E c \in Clients : Client(c)

Spec == Init /\ [][Next]_vars

Going(A) == off = "none" /\ A

\* The record thread runs and its timed wait times out; a call that was begun
\* is carried on, but for what the model leaves to others (the rest of a
\* restart, the manager's deinit) and for the join of a thread that is not
\* there.  Nobody promises to call.
FairSpec ==
  /\ Spec
  /\ WF_vars(Going(Record))
  /\ \A c \in Callers :
       /\ WF_vars(Going(Shutdown(c)))
       /\ WF_vars(Going(InitManager(c) \/ InitMuxer(c) \/ InitRun(c) \/ InitThread(c)))
  /\ \A c \in Clients : WF_vars(Going(StartOpen(c) \/ StartRun(c) \/ StopRun(c)))
=============================================================================
