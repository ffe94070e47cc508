----------------------------- MODULE Inference ------------------------------
(***************************************************************************)
(* Handing frames of the sub stream to the neural network: the vi_1 thread *)
(* of rv1106_ipc/video/video.c calls recv_frame of npu/npu.cc, which keeps *)
(* one frame for the thread npu_process; main starts and ends the network. *)
(*                                                                         *)
(* No deinit joins the vi_1 thread: it ends when it next looks at the run  *)
(* flag, so a restart may start a second one beside it.  The restart here  *)
(* is what VideoRestart's does to this thread and the flag.                *)
(***************************************************************************)
EXTENDS Integers

CONSTANTS
  Npu,     \* the thread npu_process
  Nobody,  \* g_network_lock is free
  MaxFrames, MaxRestarts, MaxFails \* bounds: frames, restarts, failures

Grabbers == 1..(MaxRestarts + 1)  \* vi_1 threads, by the start that created them
Frames   == 1..MaxFrames

ASSUME InferenceAssumption ==
  /\ MaxFrames \in Nat /\ MaxRestarts \in Nat /\ MaxFails \in Nat
  /\ Npu \notin Grabbers
  /\ Nobody \notin Grabbers \cup {Npu}

VARIABLES
  lock,    \* g_network_lock
  recv,    \* g_recv_data
  done,    \* g_process_end
  input,   \* the frame in g_input_data, 0 for none
  owned,   \* g_input_data and the network's buffers are allocated
  npuRun,  \* g_npu_run
  npu,     \* the npu thread
  run,     \* g_video_run_
  grab,    \* the vi_1 threads
  hand,    \* the frame each of them has
  main,    \* main
  starts,  \* vi_1 threads created
  stopped, \* a restart is between rk_video_deinit and rk_video_init
  worked,  \* history: the frames worked on
  broken,  \* history: the failures that leave the lock taken, a crash, a hung deinit
  frames, fails \* counters of the bounds

slotVars == <<recv, done, input, worked>>
netVars  == <<owned, npuRun>>
runVars  == <<run, starts, stopped>>
vars == <<lock, slotVars, netVars, npu, runVars, grab, hand, main, broken, frames, fails>>

GrabPc == {"none", "loop", "get", "recv", "save", "copy", "send", "ended"}
NpuPc  == {"lock", "work", "test", "ended", "none"}
MainPc == {"boot", "up", "join", "free", "storage", "hung", "server", "video", "end"}

TypeOK ==
  /\ lock \in Grabbers \cup {Npu, Nobody}
  /\ recv \in BOOLEAN /\ done \in BOOLEAN
  /\ input \in 0..MaxFrames /\ worked \subseteq 0..MaxFrames
  /\ owned \in BOOLEAN /\ npuRun \in BOOLEAN /\ run \in BOOLEAN
  /\ npu \in NpuPc
  /\ grab \in [Grabbers -> GrabPc]
  /\ hand \in [Grabbers -> 0..MaxFrames]
  /\ main \in MainPc
  /\ starts \in 0..(MaxRestarts + 1)
  /\ stopped \in BOOLEAN
  /\ broken \subseteq {"save", "infer", "crash", "storage"}
  /\ frames \in 0..MaxFrames /\ fails \in Nat

\* network_init is done, its thread created; the video is still to start.
Init ==
  /\ lock = Nobody
  /\ recv = FALSE /\ done = TRUE
  /\ input = 0 /\ worked = {}
  /\ owned = TRUE /\ npuRun = TRUE /\ run = TRUE
  /\ npu = "lock"
  /\ grab = [g \in Grabbers |-> "none"]
  /\ hand = [g \in Grabbers |-> 0]
  /\ main = "boot"
  /\ starts = 0
  /\ stopped = FALSE
  /\ broken = {}
  /\ frames = 0 /\ fails = 0

GrabGoto(g, l) == grab' = [grab EXCEPT ![g] = l]

-----------------------------------------------------------------------------
(* rkipc_get_vi_1.                                                         *)

GrabLoop(g) ==
  /\ grab[g] = "loop"
  /\ GrabGoto(g, IF run THEN "get" ELSE "ended")
  /\ UNCHANGED <<lock, slotVars, netVars, npu, runVars, hand, main, broken, frames, fails>>

\* RK_MPI_VI_GetChnFrame: the next frame, or none for a second.
GrabGet(g) ==
  /\ grab[g] = "get"
  /\ \/ /\ frames < MaxFrames
        /\ frames' = frames + 1
        /\ hand' = [hand EXCEPT ![g] = frames + 1]
        /\ GrabGoto(g, "recv")
     \/ GrabGoto(g, "loop") /\ UNCHANGED <<hand, frames>>
  /\ UNCHANGED <<lock, slotVars, netVars, npu, runVars, main, broken, fails>>

\* RK_MPI_VENC_SendFrame and RK_MPI_VI_ReleaseChnFrame.
GrabSend(g) ==
  /\ grab[g] = "send"
  /\ GrabGoto(g, "loop")
  /\ UNCHANGED <<lock, slotVars, netVars, npu, runVars, hand, main, broken, frames, fails>>

-----------------------------------------------------------------------------
(* recv_frame, called by it.                                               *)

\* Slip: frames are taken while the network is at one.
RecvAlways(g) ==
  /\ grab[g] = "recv"
  /\ lock = Nobody
  /\ recv' = TRUE /\ done' = FALSE
  /\ lock' = g
  /\ GrabGoto(g, "save")
  /\ UNCHANGED <<input, worked, netVars, npu, runVars, hand, main, broken, frames, fails>>

\* Slip: no unlock for a frame that is dropped.
RecvBusyLocked(g) ==
  /\ grab[g] = "recv"
  /\ lock = Nobody
  /\ lock' = g
  /\ IF done THEN recv' = TRUE /\ done' = FALSE /\ GrabGoto(g, "save")
             ELSE GrabGoto(g, "send") /\ UNCHANGED <<recv, done>>
  /\ UNCHANGED <<input, worked, netVars, npu, runVars, hand, main, broken, frames, fails>>

\* The frame is dropped while the network is at another one.
Recv(g) ==
  /\ grab[g] = "recv"
  /\ lock = Nobody
  /\ \/ ~done /\ GrabGoto(g, "send") /\ UNCHANGED <<lock, recv, done>>
     \/ /\ done
        /\ recv' = TRUE /\ done' = FALSE
        /\ lock' = g
        /\ GrabGoto(g, "save")
  /\ UNCHANGED <<input, worked, netVars, npu, runVars, hand, main, broken, frames, fails>>

\* storage_pic writes the frame to a file.  When the write fails recv_frame
\* returns with the lock; when the file cannot be opened the process dies in
\* fwrite.  Otherwise a new g_input_data is allocated, the last one forgotten.
RecvSave(g) ==
  /\ grab[g] = "save"
  /\ \/ /\ GrabGoto(g, "copy")
        /\ UNCHANGED <<broken, fails>>
     \/ /\ fails < MaxFails
        /\ fails' = fails + 1
        /\ \/ broken' = broken \cup {"save"} /\ GrabGoto(g, "send")
           \/ broken' = broken \cup {"crash"} /\ GrabGoto(g, "ended")
  /\ UNCHANGED <<lock, slotVars, netVars, npu, runVars, hand, main, frames>>

RecvCopy(g) ==
  /\ grab[g] = "copy"
  /\ input' = hand[g]
  /\ lock' = Nobody
  /\ GrabGoto(g, "send")
  /\ UNCHANGED <<recv, done, worked, netVars, npu, runVars, hand, main, broken, frames, fails>>

Grab(g) == GrabLoop(g) \/ GrabGet(g) \/ GrabSend(g) \/ RecvSave(g) \/ RecvCopy(g)

-----------------------------------------------------------------------------
(* npu_process: it polls for a frame.                                      *)

NpuLock ==
  /\ npu = "lock"
  /\ lock = Nobody
  /\ \/ recv /\ lock' = Npu /\ npu' = "work"
     \/ ~recv /\ npu' = "test" /\ UNCHANGED lock
  /\ UNCHANGED <<slotVars, netVars, runVars, grab, hand, main, broken, frames, fails>>

\* The inference, with the lock; when one of its calls fails the thread exits
\* with the lock.  The frame is counted as worked on though today's code hands
\* over no more than the turn: the scaling of g_input_data is commented out.
NpuWork ==
  /\ npu = "work"
  /\ \/ /\ recv' = FALSE /\ done' = TRUE
        /\ worked' = worked \cup {input}
        /\ lock' = Nobody
        /\ npu' = "test"
        /\ UNCHANGED <<broken, fails>>
     \/ /\ fails < MaxFails
        /\ fails' = fails + 1
        /\ broken' = broken \cup {"infer"}
        /\ npu' = "ended"
        /\ UNCHANGED <<lock, recv, done, worked>>
  /\ UNCHANGED <<input, netVars, runVars, grab, hand, main, frames>>

NpuTest ==
  /\ npu = "test"
  /\ npu' = IF npuRun THEN "lock" ELSE "ended"
  /\ UNCHANGED <<lock, slotVars, netVars, runVars, grab, hand, main, broken, frames, fails>>

-----------------------------------------------------------------------------
(* main and the restarts.                                                  *)

\* rkipc_pipe_1_init starts the next vi_1 thread.
StartGrab ==
  /\ run' = TRUE
  /\ starts' = starts + 1
  /\ GrabGoto(starts + 1, "loop")

VideoInit ==
  /\ main = "boot"
  /\ StartGrab
  /\ main' = "up"
  /\ UNCHANGED <<lock, slotVars, netVars, npu, stopped, hand, broken, frames, fails>>

\* A client's rk_video_restart; main's rk_video_deinit is not entered meanwhile
\* (what that would do is VideoRestart's subject).
RestartStop ==
  /\ main \in {"up", "join", "free", "storage", "hung", "server"}
  /\ ~stopped
  /\ starts <= MaxRestarts
  /\ stopped' = TRUE
  /\ run' = FALSE
  /\ UNCHANGED <<lock, slotVars, netVars, npu, starts, grab, hand, main, broken, frames, fails>>

RestartStart ==
  /\ stopped
  /\ stopped' = FALSE
  /\ StartGrab
  /\ UNCHANGED <<lock, slotVars, netVars, npu, hand, main, broken, frames, fails>>

\* Slip: the flag is left to the process's end.
NetworkExitForgetful ==
  /\ main = "up"
  /\ main' = "join"
  /\ UNCHANGED <<lock, slotVars, netVars, npu, runVars, grab, hand, broken, frames, fails>>

\* network_exit, the first call of main's exit.
NetworkExit ==
  /\ main = "up"
  /\ npuRun' = FALSE
  /\ main' = "join"
  /\ UNCHANGED <<lock, slotVars, owned, npu, runVars, grab, hand, broken, frames, fails>>

NetworkJoin ==
  /\ main = "join"
  /\ npu = "ended"
  /\ npu' = "none"
  /\ main' = "free"
  /\ UNCHANGED <<lock, slotVars, netVars, runVars, grab, hand, broken, frames, fails>>

\* The context and the buffers go, g_input_data too, under whatever vi_1 thread
\* may be copying a frame.
NetworkFree ==
  /\ main = "free"
  /\ owned' = FALSE
  /\ main' = "storage"
  /\ UNCHANGED <<lock, slotVars, npuRun, npu, runVars, grab, hand, broken, frames, fails>>

\* rk_storage_deinit comes next.  It may never return: MountLifecycle and
\* StreamRecorder say when.
StorageDeinit ==
  /\ main = "storage"
  /\ \/ main' = "server" /\ UNCHANGED <<broken, fails>>
     \/ /\ fails < MaxFails
        /\ fails' = fails + 1
        /\ broken' = broken \cup {"storage"}
        /\ main' = "hung"
  /\ UNCHANGED <<lock, slotVars, netVars, npu, runVars, grab, hand, frames>>

\* rkipc_server_deinit waits half a second for nobody, rk_system_deinit is empty.
ServerDeinit ==
  /\ main = "server"
  /\ main' = "video"
  /\ UNCHANGED <<lock, slotVars, netVars, npu, runVars, grab, hand, broken, frames, fails>>

VideoDeinit ==
  /\ main = "video"
  /\ ~stopped
  /\ run' = FALSE
  /\ main' = "end"
  /\ UNCHANGED <<lock, slotVars, netVars, npu, starts, stopped, grab, hand, broken, frames, fails>>

MainStep ==
  \/ VideoInit \/ NetworkJoin \/ NetworkFree
  \/ StorageDeinit \/ ServerDeinit \/ VideoDeinit

Next ==
  /\ "crash" \notin broken
  /\ \/ \E g \in Grabbers : Grab(g) \/ Recv(g)
     \/ NpuLock \/ NpuWork \/ NpuTest
     \/ MainStep \/ NetworkExit
     \/ RestartStop \/ RestartStart

\* Threads go on; who waits for the lock again and again gets it.
Alive(A) == "crash" \notin broken /\ A
Fairness ==
  /\ \A g \in Grabbers : WF_vars(Alive(Grab(g))) /\ SF_vars(Alive(Recv(g)))
  /\ SF_vars(Alive(NpuLock)) /\ WF_vars(Alive(NpuWork)) /\ WF_vars(Alive(NpuTest))
  /\ WF_vars(Alive(MainStep)) /\ WF_vars(Alive(RestartStart))

Spec == Init /\ [][Next]_vars /\ Fairness
=============================================================================
