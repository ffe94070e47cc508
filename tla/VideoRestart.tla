---------------------------- MODULE VideoRestart ----------------------------
(***************************************************************************)
(* The video pipeline of rv1106_ipc/video/video.c and who else uses what   *)
(* it owns: the two encoder threads, which send each frame to the rtsp     *)
(* server and the rtmp muxers; the audio thread of audio/audio.c, which    *)
(* sends to the same rtsp server and is not stopped with the video; main,  *)
(* which brings both up and takes them down; and the detached threads of   *)
(* the socket server, one per client, in which rk_video_restart runs for   *)
(* half a dozen setters.                                                   *)
(*                                                                         *)
(* A third thread, PhotoCapture's, is joined with the encoders.            *)
(*                                                                         *)
(* The model ends where the code's behaviour is undefined: a thread joined *)
(* that was never created or is joined already (why # {}).                 *)
(***************************************************************************)
EXTENDS PhotoCapture

CONSTANTS
  Clients,  \* detached threads of the socket server
  Main,     \* the thread of main()
  Audio,    \* the audio thread
  Nobody,   \* g_rtsp_mutex is free
  MaxRestarts, MaxFails \* bounds: restarts, blocks that cannot be set up

Streams == {0, 1}     \* main and sub stream: pipes, sessions, muxers
Callers == Clients \cup {Main}

ASSUME VideoAssumption ==
  /\ Main \notin Clients
  /\ Audio \notin Streams
  /\ Nobody \notin Streams \cup {Audio}
  /\ Photographers \subseteq Clients /\ MaxPhotos \in Nat
  /\ MaxRestarts \in Nat /\ MaxFails \in Nat

VARIABLES
  run,     \* g_video_run_
  venc,    \* venc_thread_0 and venc_thread_1
  chan,    \* the encoder channel of the stream exists
  rtsp,    \* g_rtsplive points to: nothing, a server, a deleted server
  sess,    \* g_rtsp_session_0 and _1, likewise
  rtmp,    \* the stream's muxer is open and g_rtmp_enable set
  mutex,   \* g_rtsp_mutex
  arun,    \* g_audio_run_
  audio,   \* the audio thread
  turn,    \* the session the audio thread is at
  pc,      \* main, and the clients' restarts
  why,     \* history: what made the behaviour undefined
  restarts, fails \* counters of the bounds

rtspVars  == <<rtsp, sess>>
audioVars == <<arun, audio, turn>>
boundVars == <<restarts, fails>>
vars == <<run, venc, chan, rtspVars, rtmp, mutex, audioVars, pc, why, boundVars,
          photoVars>>

\* rk_video_deinit and rk_video_init, step by step.
Order == [stop |-> "join0", join0 |-> "join1", join1 |-> "join3",
          join3 |-> "rtmpoff", rtmpoff |-> "del", del |-> "null",
          start |-> "create", create |-> "sess0", sess0 |-> "sess1",
          sess1 |-> "rtmpon", rtmpon |-> "pipe0", pipe0 |-> "pipe1",
          pipe1 |-> "pipe3"]

\* The stream a step is about.
Of == [join0 |-> 0, join1 |-> 1, sess0 |-> 0, sess1 |-> 1, pipe0 |-> 0, pipe1 |-> 1]

InDeinit == {"stop", "join0", "join1", "join3", "rtmpoff", "del", "null"}
InInit   == {"start", "create", "sess0", "sess1", "rtmpon", "pipe0", "pipe1", "pipe3"}
Inside(t) == pc[t] \in InDeinit \cup InInit

VencPc  == {"none", "loop", "get", "wait", "tx", "write", "ended"}
AudioPc == {"none", "loop", "test", "wait", "tx", "ended"}
MainPc  == InDeinit \cup InInit \cup {"audio", "up", "audiooff", "audiojoin", "end"}
Pointer == {"null", "live", "dead"}

TypeOK ==
  /\ run \in BOOLEAN /\ arun \in BOOLEAN
  /\ venc \in [Streams -> VencPc]
  /\ chan \in [Streams -> BOOLEAN]
  /\ rtsp \in Pointer
  /\ sess \in [Streams -> Pointer]
  /\ rtmp \in [Streams -> BOOLEAN]
  /\ mutex \in Streams \cup {Audio, Nobody}
  /\ audio \in AudioPc
  /\ turn \in Streams
  /\ pc \in [Callers -> MainPc \cup {"idle"}]
  /\ \A c \in Clients : pc[c] \in InDeinit \cup InInit \cup {"idle"}
  /\ pc[Main] \in MainPc
  /\ why \subseteq {"overlap", "late", "nothread"}
  /\ restarts \in Nat /\ fails \in Nat
  /\ PhotoTypes

\* The process starts: main is before rk_video_init, nothing is there.
Init ==
  /\ run = TRUE /\ arun = TRUE
  /\ venc = [s \in Streams |-> "none"]
  /\ chan = [s \in Streams |-> FALSE]
  /\ rtsp = "null"
  /\ sess = [s \in Streams |-> "null"]
  /\ rtmp = [s \in Streams |-> FALSE]
  /\ mutex = Nobody
  /\ audio = "none"
  /\ turn = 0
  /\ pc = [t \in Callers |-> IF t = Main THEN "start" ELSE "idle"]
  /\ why = {}
  /\ restarts = 0 /\ fails = 0
  /\ PhotoInit

Goto(t, l) == pc' = [pc EXCEPT ![t] = l]
Forward(t) == Goto(t, Order[pc[t]])

-----------------------------------------------------------------------------
(* rk_video_deinit, in main or in a client's restart.                      *)

\* Slip: the run flag is left alone.
StopForgotten(t) ==
  /\ pc[t] = "stop"
  /\ Forward(t)
  /\ UNCHANGED <<run, venc, chan, rtspVars, rtmp, mutex, audioVars, why,
                 boundVars, photoVars>>

Stop(t) ==
  /\ pc[t] = "stop"
  /\ run' = FALSE
  /\ Forward(t)
  /\ UNCHANGED <<venc, chan, rtspVars, rtmp, mutex, audioVars, why,
                 boundVars, photoVars>>

\* Slip: the pipe is taken down without waiting for its thread.
JoinSkipped(t) ==
  /\ pc[t] \in {"join0", "join1"}
  /\ chan' = [chan EXCEPT ![Of[pc[t]]] = FALSE]
  /\ Forward(t)
  /\ UNCHANGED <<run, venc, rtspVars, rtmp, mutex, audioVars, why, boundVars,
                 photoVars>>

\* pthread_join of the encoder thread and rkipc_pipe_N_deinit.  The join is
\* made whether or not the pipe could be set up.
JoinVenc(t) ==
  /\ pc[t] \in {"join0", "join1"}
  /\ LET s == Of[pc[t]] IN
       \/ /\ venc[s] = "ended"
          /\ venc' = [venc EXCEPT ![s] = "none"]
          /\ chan' = [chan EXCEPT ![s] = FALSE]
          /\ UNCHANGED why
       \/ /\ venc[s] = "none"
          /\ why' = why \cup {"nothread"}
          /\ UNCHANGED <<venc, chan>>
  /\ Forward(t)
  /\ UNCHANGED <<run, rtspVars, rtmp, mutex, audioVars, boundVars, photoVars>>

\* rkipc_rtmp_deinit.
RtmpDeinit(t) ==
  /\ pc[t] = "rtmpoff"
  /\ rtmp' = [s \in Streams |-> FALSE]
  /\ Forward(t)
  /\ UNCHANGED <<run, venc, chan, rtspVars, mutex, audioVars, why, boundVars,
                 photoVars>>

\* rkipc_rtsp_deinit, without g_rtsp_mutex: the server goes with its sessions;
\* what the session pointers point to is gone, and they stay.
RtspDelete(t) ==
  /\ pc[t] = "del"
  /\ rtsp' = IF rtsp = "live" THEN "dead" ELSE rtsp
  /\ sess' = [s \in Streams |-> IF sess[s] = "live" THEN "dead" ELSE sess[s]]
  /\ Forward(t)
  /\ UNCHANGED <<run, venc, chan, rtmp, mutex, audioVars, why, boundVars,
                 photoVars>>

\* Slip: the pointer to the deleted server is kept.
RtspNullForgotten(t) ==
  /\ pc[t] = "null"
  /\ Goto(t, IF t = Main THEN "audiooff" ELSE "start")
  /\ UNCHANGED <<run, venc, chan, rtspVars, rtmp, mutex, audioVars, why,
                 boundVars, photoVars>>

\* Its last line.  A restart goes on with rk_isp_deinit, rk_isp_init and
\* rk_video_init, main with rkipc_audio_deinit.
RtspNull(t) ==
  /\ pc[t] = "null"
  /\ rtsp' = "null"
  /\ Goto(t, IF t = Main THEN "audiooff" ELSE "start")
  /\ UNCHANGED <<run, venc, chan, sess, rtmp, mutex, audioVars, why,
                 boundVars, photoVars>>

-----------------------------------------------------------------------------
(* rk_video_init.                                                          *)

Start(t) ==
  /\ pc[t] = "start"
  /\ run' = TRUE
  /\ Forward(t)
  /\ UNCHANGED <<venc, chan, rtspVars, rtmp, mutex, audioVars, why,
                 boundVars, photoVars>>

\* rkipc_rtsp_init: the server first, then its sessions, without the mutex.
RtspCreate(t) ==
  /\ pc[t] = "create"
  /\ rtsp' = "live"
  /\ Forward(t)
  /\ UNCHANGED <<run, venc, chan, sess, rtmp, mutex, audioVars, why,
                 boundVars, photoVars>>

RtspSession(t) ==
  /\ pc[t] \in {"sess0", "sess1"}
  /\ sess' = [sess EXCEPT ![Of[pc[t]]] = "live"]
  /\ Forward(t)
  /\ UNCHANGED <<run, venc, chan, rtsp, rtmp, mutex, audioVars, why,
                 boundVars, photoVars>>

\* rkipc_rtmp_init.
RtmpInit(t) ==
  /\ pc[t] = "rtmpon"
  /\ rtmp' = [s \in Streams |-> TRUE]
  /\ Forward(t)
  /\ UNCHANGED <<run, venc, chan, rtspVars, mutex, audioVars, why, boundVars,
                 photoVars>>

\* rkipc_pipe_0_init and rkipc_pipe_1_init, with the encoder thread.
PipeInit(t) ==
  /\ pc[t] \in {"pipe0", "pipe1"}
  /\ LET s == Of[pc[t]] IN
       \/ /\ chan' = [chan EXCEPT ![s] = TRUE]
          /\ venc' = [venc EXCEPT ![s] = "loop"]
          /\ UNCHANGED fails
       \/ \* a block cannot be set up: no thread, and nobody looks at the result
          /\ fails < MaxFails
          /\ fails' = fails + 1
          /\ UNCHANGED <<venc, chan>>
  /\ Forward(t)
  /\ UNCHANGED <<run, rtspVars, rtmp, mutex, audioVars, why, restarts,
                 photoVars>>

-----------------------------------------------------------------------------
(* The third pipe, with the jpeg thread.                                   *)

JoinJpeg(t) ==
  /\ pc[t] = "join3"
  /\ \/ JpegDeinit /\ UNCHANGED why
     \/ jpeg = "none" /\ why' = why \cup {"nothread"} /\ UNCHANGED photoVars
  /\ Forward(t)
  /\ UNCHANGED <<run, venc, chan, rtspVars, rtmp, mutex, audioVars, boundVars>>

\* The last step of rk_video_init.
PipeInitJpeg(t) ==
  /\ pc[t] = "pipe3"
  /\ \/ JpegInit /\ UNCHANGED fails
     \/ fails < MaxFails /\ fails' = fails + 1 /\ UNCHANGED photoVars
  /\ Goto(t, IF t = Main THEN "audio" ELSE "idle")
  /\ UNCHANGED <<run, venc, chan, rtspVars, rtmp, mutex, audioVars, why, restarts>>

\* A client takes a photo; it may be restarted meanwhile by another one.
Photo(c) ==
  /\ pc[Main] \notin InInit \cup {"audio"}
  /\ pc[c] = "idle"
  /\ PhotoAsk(c) \/ PhotoFlag(c)
  /\ UNCHANGED <<run, venc, chan, rtspVars, rtmp, mutex, audioVars, pc, why, boundVars>>

JpegThread ==
  /\ Jpeg(run)
  /\ UNCHANGED <<run, venc, chan, rtspVars, rtmp, mutex, audioVars, pc, why, boundVars>>

EncodeJpeg ==
  /\ Encode
  /\ UNCHANGED <<run, venc, chan, rtspVars, rtmp, mutex, audioVars, pc, why, boundVars>>

VideoStep(t) ==
  \/ Stop(t) \/ JoinVenc(t) \/ JoinJpeg(t)
  \/ RtmpDeinit(t) \/ RtspDelete(t) \/ RtspNull(t)
  \/ Start(t) \/ RtspCreate(t) \/ RtspSession(t) \/ RtmpInit(t)
  \/ PipeInit(t) \/ PipeInitJpeg(t)

-----------------------------------------------------------------------------
(* main, around the video.                                                 *)

\* rkipc_audio_init, then rkipc_server_init: clients are served from here on.
AudioInit ==
  /\ pc[Main] = "audio"
  /\ \/ audio' = "loop" /\ UNCHANGED fails
     \/ fails < MaxFails /\ fails' = fails + 1 /\ UNCHANGED audio
  /\ Goto(Main, "up")
  /\ UNCHANGED <<run, venc, chan, rtspVars, rtmp, mutex, arun, turn, why,
                 restarts, photoVars>>

\* SIGINT.  rkipc_server_deinit stops no client; main enters rk_video_deinit.
Exit ==
  /\ pc[Main] = "up"
  /\ Goto(Main, "stop")
  /\ why' = IF \E c \in Clients : Inside(c) THEN why \cup {"overlap"} ELSE why
  /\ UNCHANGED <<run, venc, chan, rtspVars, rtmp, mutex, audioVars,
                 boundVars, photoVars>>

\* rkipc_audio_deinit.
AudioStop ==
  /\ pc[Main] = "audiooff"
  /\ arun' = FALSE
  /\ Goto(Main, "audiojoin")
  /\ UNCHANGED <<run, venc, chan, rtspVars, rtmp, mutex, audio, turn, why,
                 boundVars, photoVars>>

AudioJoin ==
  /\ pc[Main] = "audiojoin"
  /\ \/ audio = "ended" /\ audio' = "none" /\ UNCHANGED why
     \/ audio = "none" /\ why' = why \cup {"nothread"} /\ UNCHANGED audio
  /\ Goto(Main, "end")
  /\ UNCHANGED <<run, venc, chan, rtspVars, rtmp, mutex, arun, turn,
                 boundVars, photoVars>>

MainStep == AudioInit \/ AudioStop \/ AudioJoin

\* A client sets a parameter that ends in rk_video_restart.  Nothing excludes
\* another restart, or main's exit.
Restart(c) ==
  /\ pc[Main] \notin InInit \cup {"audio"}
  /\ pc[c] = "idle" /\ c \notin asking
  /\ restarts < MaxRestarts
  /\ restarts' = restarts + 1
  /\ Goto(c, "stop")
  /\ why' = why \cup (IF \E d \in Callers \ {c} : Inside(d) THEN {"overlap"} ELSE {})
                \cup (IF pc[Main] \in {"audiooff", "audiojoin", "end"} THEN {"late"} ELSE {})
  /\ UNCHANGED <<run, venc, chan, rtspVars, rtmp, mutex, audioVars, fails,
                 photoVars>>

-----------------------------------------------------------------------------
(* rkipc_get_venc_0 and rkipc_get_venc_1.                                  *)

VencGoto(s, l) == venc' = [venc EXCEPT ![s] = l]

VencLoop(s) ==
  /\ venc[s] = "loop"
  /\ VencGoto(s, IF run THEN "get" ELSE "ended")
  /\ UNCHANGED <<run, chan, rtspVars, rtmp, mutex, audioVars, pc, why,
                 boundVars, photoVars>>

\* RK_MPI_VENC_GetStream: a frame, or nothing for a second.  Server and session
\* are tested here, before the mutex is taken.
VencGet(s) ==
  /\ venc[s] = "get"
  /\ \/ VencGoto(s, IF rtsp # "null" /\ sess[s] # "null" THEN "wait" ELSE "write")
     \/ VencGoto(s, "loop")
  /\ UNCHANGED <<run, chan, rtspVars, rtmp, mutex, audioVars, pc, why,
                 boundVars, photoVars>>

VencLock(s) ==
  /\ venc[s] = "wait"
  /\ mutex = Nobody
  /\ mutex' = s
  /\ VencGoto(s, "tx")
  /\ UNCHANGED <<run, chan, rtspVars, rtmp, audioVars, pc, why, boundVars,
                 photoVars>>

\* rtsp_tx_video and rtsp_do_event are done.
VencSent(s) ==
  /\ venc[s] = "tx"
  /\ mutex' = Nobody
  /\ VencGoto(s, "write")
  /\ UNCHANGED <<run, chan, rtspVars, rtmp, audioVars, pc, why, boundVars,
                 photoVars>>

\* rk_rtmp_write_video_frame and RK_MPI_VENC_ReleaseStream.
VencWritten(s) ==
  /\ venc[s] = "write"
  /\ VencGoto(s, "loop")
  /\ UNCHANGED <<run, chan, rtspVars, rtmp, mutex, audioVars, pc, why,
                 boundVars, photoVars>>

Venc(s) ==
  VencLoop(s) \/ VencGet(s) \/ VencLock(s) \/ VencSent(s) \/ VencWritten(s)

-----------------------------------------------------------------------------
(* save_aenc_thread: each frame goes to both sessions.                     *)

\* The thread ends when it is told to, and after a frame without data.
AudioLoop ==
  /\ audio = "loop"
  /\ audio' \in {"ended"} \cup (IF arun THEN {"test"} ELSE {})
  /\ turn' = 0
  /\ UNCHANGED <<run, venc, chan, rtspVars, rtmp, mutex, arun, pc, why,
                 boundVars, photoVars>>

\* On to the second session, or to the next frame.
NextSession ==
  IF turn = 0 THEN turn' = 1 /\ audio' = "test"
              ELSE turn' = 0 /\ audio' = "loop"

AudioTest ==
  /\ audio = "test"
  /\ IF rtsp # "null" /\ sess[turn] # "null"
       THEN audio' = "wait" /\ UNCHANGED turn
       ELSE NextSession
  /\ UNCHANGED <<run, venc, chan, rtspVars, rtmp, mutex, arun, pc, why,
                 boundVars, photoVars>>

AudioLock ==
  /\ audio = "wait"
  /\ mutex = Nobody
  /\ mutex' = Audio
  /\ audio' = "tx"
  /\ UNCHANGED <<run, venc, chan, rtspVars, rtmp, arun, turn, pc, why,
                 boundVars, photoVars>>

AudioSent ==
  /\ audio = "tx"
  /\ mutex' = Nobody
  /\ NextSession
  /\ UNCHANGED <<run, venc, chan, rtspVars, rtmp, arun, pc, why, boundVars,
                 photoVars>>

AudioThread == AudioLoop \/ AudioTest \/ AudioLock \/ AudioSent

-----------------------------------------------------------------------------
Next ==
  /\ why = {}
  /\ \/ \E t \in Callers : VideoStep(t)
     \/ MainStep \/ Exit
     \/ \E c \in Clients : Restart(c)
     \/ \E c \in Photographers : Photo(c)
     \/ JpegThread \/ EncodeJpeg
     \/ \E s \in Streams : Venc(s)
     \/ AudioThread

Spec == Init /\ [][Next]_vars
=============================================================================
