----------------------------- MODULE VideoProofs ----------------------------
(***************************************************************************)
(* Proofs about the video pipeline, for any number of clients, restarts,   *)
(* photos and failures.                                                    *)
(*                                                                         *)
(* The argument: while nothing is undefined yet one thread at most is      *)
(* inside rk_video_deinit or rk_video_init (Solo), so where it is tells    *)
(* what there is: which encoder threads are joined (Joined), whether the   *)
(* server and its sessions are there (Standing), that the run flag is      *)
(* down (Stopped) and, unless a block failed, that a thread yet to be      *)
(* joined was created (Created).                                           *)
(***************************************************************************)
EXTENDS VideoProps, TLAPS

\* What a step leads to, by name.
LEMMA OrderIs ==
  /\ Order["stop"] = "join0" /\ Order["join0"] = "join1" /\ Order["join1"] = "join3"
  /\ Order["join3"] = "rtmpoff" /\ Order["rtmpoff"] = "del" /\ Order["del"] = "null"
  /\ Order["start"] = "create" /\ Order["create"] = "sess0" /\ Order["sess0"] = "sess1"
  /\ Order["sess1"] = "rtmpon" /\ Order["rtmpon"] = "pipe0" /\ Order["pipe0"] = "pipe1"
  /\ Order["pipe1"] = "pipe3"
  BY DEF Order

\* The stream of a step, by name.
LEMMA OfIs ==
  /\ Of["join0"] = 0 /\ Of["sess0"] = 0 /\ Of["pipe0"] = 0
  /\ Of["join1"] = 1 /\ Of["sess1"] = 1 /\ Of["pipe1"] = 1
  BY DEF Of

-----------------------------------------------------------------------------
(* Types, in three parts.                                                  *)

PcTyped ==
  /\ pc \in [Callers -> MainPc \cup {"idle"}]
  /\ \A c \in Clients : pc[c] \in InDeinit \cup InInit \cup {"idle"}
  /\ pc[Main] \in MainPc

DataTyped ==
  /\ run \in BOOLEAN /\ arun \in BOOLEAN
  /\ venc \in [Streams -> VencPc]
  /\ chan \in [Streams -> BOOLEAN]
  /\ rtsp \in Pointer
  /\ sess \in [Streams -> Pointer]
  /\ rtmp \in [Streams -> BOOLEAN]
  /\ mutex \in Streams \cup {Audio, Nobody}
  /\ audio \in AudioPc
  /\ turn \in Streams
  /\ why \subseteq {"overlap", "late", "nothread"}
  /\ restarts \in Nat /\ fails \in Nat

\* The type invariant is its three parts.
LEMMA TypeParts == TypeOK <=> PcTyped /\ DataTyped /\ PhotoTypes
  BY DEF TypeOK, PcTyped, DataTyped

\* The types hold when the process starts.
LEMMA InitTyped == Init => TypeOK
<1> SUFFICES ASSUME Init PROVE TypeOK
  OBVIOUS
<1>1. PcTyped
  BY VideoAssumption DEF Init, PcTyped, Callers, MainPc, InInit
<1>2. DataTyped
  BY VideoAssumption DEF Init, DataTyped, VencPc, AudioPc, Pointer, Streams
<1>3. PhotoTypes
  BY DEF Init, PhotoInit, PhotoTypes, JpegPc, Picture
<1> QED BY <1>1, <1>2, <1>3, TypeParts

\* A caller goes one step forward inside deinit or init.
LEMMA ForwardTyped ==
  ASSUME PcTyped, NEW t \in Callers, Forward(t),
         pc[t] \in InDeinit \cup InInit, pc[t] \notin {"null", "pipe3"}
  PROVE  PcTyped'
<1>1. Order[pc[t]] \in InDeinit \cup InInit
  BY OrderIs DEF InDeinit, InInit
<1>2. pc' = [pc EXCEPT ![t] = Order[pc[t]]]
  BY DEF Forward, Goto
<1> QED BY <1>1, <1>2, VideoAssumption DEF PcTyped, Callers, MainPc

\* The callers stay at steps there are.
LEMMA NextPcTyped ==
  ASSUME PcTyped, [Next]_vars
  PROVE  PcTyped'
<1> USE VideoAssumption
<1>1. ASSUME NEW t \in Callers, VideoStep(t) PROVE PcTyped'
  <2>1. ASSUME NEW l, pc' = [pc EXCEPT ![t] = l],
               l \in InInit \cup {"idle"} \/ (t = Main /\ l \in MainPc), t = Main => l # "idle"
        PROVE  PcTyped'
    BY <2>1 DEF PcTyped, Callers, MainPc
  <2>2. CASE RtspNull(t)
    BY <2>2, <2>1 DEF RtspNull, Goto, InInit, MainPc
  <2>3. CASE PipeInitJpeg(t)
    BY <2>3, <2>1 DEF PipeInitJpeg, Goto, InInit, MainPc
  <2>4. CASE ~RtspNull(t) /\ ~PipeInitJpeg(t)
    <3>1. Forward(t) /\ pc[t] \in InDeinit \cup InInit /\ pc[t] \notin {"null", "pipe3"}
      BY <1>1, <2>4 DEF VideoStep, Stop, JoinVenc, JoinJpeg, RtmpDeinit, RtspDelete,
         Start, RtspCreate, RtspSession, RtmpInit, PipeInit, InDeinit, InInit
    <3> QED BY <3>1, ForwardTyped
  <2> QED BY <2>2, <2>3, <2>4
<1>2. CASE MainStep \/ Exit
  BY <1>2 DEF MainStep, AudioInit, AudioStop, AudioJoin, Exit, Goto, PcTyped, Callers,
     MainPc, InDeinit
<1>3. ASSUME NEW c \in Clients, Restart(c) PROVE PcTyped'
  BY <1>3 DEF Restart, Goto, PcTyped, Callers, MainPc, InDeinit
<1>4. CASE UNCHANGED pc
  BY <1>4 DEF PcTyped
<1>5. (\E c \in Photographers : Photo(c)) \/ JpegThread \/ EncodeJpeg
        \/ (\E s \in Streams : Venc(s)) \/ AudioThread \/ UNCHANGED vars => UNCHANGED pc
  BY DEF Photo, JpegThread, EncodeJpeg, Venc, VencLoop, VencGet, VencLock, VencSent,
     VencWritten, AudioThread, AudioLoop, AudioTest, AudioLock, AudioSent, vars
<1> QED BY <1>1, <1>2, <1>3, <1>4, <1>5 DEF Next

\* The photos' variables keep their types.
LEMMA NextPhotoTyped ==
  ASSUME PhotoTypes, [Next]_vars
  PROVE  PhotoTypes'
<1> USE DEF PhotoTypes, JpegPc, Picture
<1>1. CASE UNCHANGED photoVars
  BY <1>1 DEF photoVars
<1>2. CASE JpegInit
  BY <1>2 DEF JpegInit
<1>3. CASE JpegDeinit
  BY <1>3 DEF JpegDeinit
<1>4. ASSUME NEW c \in Photographers, PhotoAsk(c) PROVE PhotoTypes'
  BY <1>4 DEF PhotoAsk, Aged
<1>5. ASSUME NEW c \in Photographers, PhotoFlag(c) PROVE PhotoTypes'
  BY <1>5 DEF PhotoFlag
<1>6. CASE Encode
  BY <1>6 DEF Encode
<1>7. CASE Jpeg(run)
  BY <1>7 DEF Jpeg, JpegFirst, JpegLoop, JpegLook, JpegGrab, JpegSave
<1> QED
  <2>1. ASSUME NEW t \in Callers, VideoStep(t)
        PROVE  UNCHANGED photoVars \/ JpegInit \/ JpegDeinit
    BY <2>1 DEF VideoStep, Stop, JoinVenc, JoinJpeg, RtmpDeinit, RtspDelete, RtspNull,
       Start, RtspCreate, RtspSession, RtmpInit, PipeInit, PipeInitJpeg
  <2>2. MainStep \/ Exit \/ (\E c \in Clients : Restart(c)) \/ (\E s \in Streams : Venc(s))
          \/ AudioThread \/ UNCHANGED vars => UNCHANGED photoVars
    BY DEF MainStep, AudioInit, AudioStop, AudioJoin, Exit, Restart, Venc, VencLoop,
       VencGet, VencLock, VencSent, VencWritten, AudioThread, AudioLoop, AudioTest,
       AudioLock, AudioSent, vars
  <2> QED BY <1>1, <1>2, <1>3, <1>4, <1>5, <1>6, <1>7, <2>1, <2>2
          DEF Next, Photo, JpegThread, EncodeJpeg

\* Every other variable keeps its type.
LEMMA NextDataTyped ==
  ASSUME DataTyped, [Next]_vars
  PROVE  DataTyped'
<1> USE VideoAssumption DEF DataTyped, VencPc, AudioPc, Pointer, Streams
<1>1. CASE UNCHANGED <<run, venc, chan, rtspVars, rtmp, mutex, audioVars, why, boundVars>>
  BY <1>1 DEF rtspVars, audioVars, boundVars
<1>2. ASSUME NEW t \in Callers, VideoStep(t) PROVE DataTyped'
  <2>1. CASE Stop(t)
    BY <2>1 DEF Stop, rtspVars, audioVars, boundVars
  <2>2. CASE JoinVenc(t)
    <3>1. Of[pc[t]] \in Streams
      BY <2>2, OfIs DEF JoinVenc
    <3> DEFINE s == Of[pc[t]]
    <3>2. venc' \in [Streams -> VencPc]
      BY <2>2, <3>1 DEF JoinVenc
    <3>3. chan' \in [Streams -> BOOLEAN]
      <4>1. chan' = chan \/ \E b \in BOOLEAN : chan' = [chan EXCEPT ![s] = b]
        BY <2>2 DEF JoinVenc, rtspVars
      <4> QED BY <4>1, <3>1
    <3>5. sess' \in [Streams -> Pointer]
      BY <2>2, <3>1 DEF JoinVenc, rtspVars
    <3>4. fails' \in Nat /\ why' \subseteq {"overlap", "late", "nothread"}
      BY <2>2 DEF JoinVenc, boundVars
    <3> QED BY <2>2, <3>2, <3>3, <3>4, <3>5 DEF JoinVenc, rtspVars, audioVars, boundVars
  <2>3. CASE JoinJpeg(t)
    BY <2>3 DEF JoinJpeg, rtspVars, audioVars, boundVars
  <2>4. CASE RtmpDeinit(t)
    BY <2>4 DEF RtmpDeinit, rtspVars, audioVars, boundVars
  <2>5. CASE RtspDelete(t)
    BY <2>5 DEF RtspDelete, rtspVars, audioVars, boundVars
  <2>6. CASE RtspNull(t)
    BY <2>6 DEF RtspNull, rtspVars, audioVars, boundVars
  <2>7. CASE Start(t)
    BY <2>7 DEF Start, rtspVars, audioVars, boundVars
  <2>8. CASE RtspCreate(t)
    BY <2>8 DEF RtspCreate, rtspVars, audioVars, boundVars
  <2>9. CASE RtspSession(t)
    <3>1. Of[pc[t]] \in Streams
      BY <2>9, OfIs DEF RtspSession
    <3> DEFINE s == Of[pc[t]]
    <3>2. venc' \in [Streams -> VencPc]
      BY <2>9, <3>1 DEF RtspSession
    <3>3. chan' \in [Streams -> BOOLEAN]
      <4>1. chan' = chan \/ \E b \in BOOLEAN : chan' = [chan EXCEPT ![s] = b]
        BY <2>9 DEF RtspSession, rtspVars
      <4> QED BY <4>1, <3>1
    <3>5. sess' \in [Streams -> Pointer]
      BY <2>9, <3>1 DEF RtspSession, rtspVars
    <3>4. fails' \in Nat /\ why' \subseteq {"overlap", "late", "nothread"}
      BY <2>9 DEF RtspSession, boundVars
    <3> QED BY <2>9, <3>2, <3>3, <3>4, <3>5 DEF RtspSession, rtspVars, audioVars, boundVars
  <2>10. CASE RtmpInit(t)
    BY <2>10 DEF RtmpInit, rtspVars, audioVars, boundVars
  <2>11. CASE PipeInit(t)
    <3>1. Of[pc[t]] \in Streams
      BY <2>11, OfIs DEF PipeInit
    <3> DEFINE s == Of[pc[t]]
    <3>2. venc' \in [Streams -> VencPc]
      BY <2>11, <3>1 DEF PipeInit
    <3>3. chan' \in [Streams -> BOOLEAN]
      <4>1. chan' = chan \/ \E b \in BOOLEAN : chan' = [chan EXCEPT ![s] = b]
        BY <2>11 DEF PipeInit, rtspVars
      <4> QED BY <4>1, <3>1
    <3>5. sess' \in [Streams -> Pointer]
      BY <2>11, <3>1 DEF PipeInit, rtspVars
    <3>4. fails' \in Nat /\ why' \subseteq {"overlap", "late", "nothread"}
      BY <2>11 DEF PipeInit, boundVars
    <3> QED BY <2>11, <3>2, <3>3, <3>4, <3>5 DEF PipeInit, rtspVars, audioVars, boundVars
  <2>12. CASE PipeInitJpeg(t)
    BY <2>12 DEF PipeInitJpeg, rtspVars, audioVars, boundVars
  <2> QED BY <1>2, <2>1, <2>2, <2>3, <2>4, <2>5, <2>6, <2>7, <2>8, <2>9,
             <2>10, <2>11, <2>12 DEF VideoStep
<1>3. CASE MainStep \/ Exit
  <2>1. CASE AudioInit
    BY <2>1 DEF AudioInit, rtspVars
  <2>2. CASE AudioStop
    BY <2>2 DEF AudioStop, rtspVars, boundVars
  <2>3. CASE AudioJoin
    BY <2>3 DEF AudioJoin, rtspVars, boundVars
  <2>4. CASE Exit
    BY <2>4 DEF Exit, rtspVars, audioVars, boundVars
  <2> QED BY <1>3, <2>1, <2>2, <2>3, <2>4 DEF MainStep
<1>4. ASSUME NEW c \in Clients, Restart(c) PROVE DataTyped'
  BY <1>4 DEF Restart, rtspVars, audioVars
<1>5. ASSUME NEW s \in Streams, Venc(s) PROVE DataTyped'
  <2>1. CASE VencLoop(s)
    BY <2>1 DEF VencLoop, VencGoto, rtspVars, audioVars, boundVars
  <2>2. CASE VencGet(s)
    BY <2>2 DEF VencGet, VencGoto, rtspVars, audioVars, boundVars
  <2>3. CASE VencLock(s)
    BY <2>3 DEF VencLock, VencGoto, rtspVars, audioVars, boundVars
  <2>4. CASE VencSent(s)
    BY <2>4 DEF VencSent, VencGoto, rtspVars, audioVars, boundVars
  <2>5. CASE VencWritten(s)
    BY <2>5 DEF VencWritten, VencGoto, rtspVars, audioVars, boundVars
  <2> QED BY <1>5, <2>1, <2>2, <2>3, <2>4, <2>5 DEF Venc
<1>6. CASE AudioThread
  BY <1>6 DEF AudioThread, AudioLoop, AudioTest, AudioLock, AudioSent, NextSession,
     rtspVars, boundVars
<1>7. (\E c \in Photographers : Photo(c)) \/ JpegThread \/ EncodeJpeg \/ UNCHANGED vars
        => UNCHANGED <<run, venc, chan, rtspVars, rtmp, mutex, audioVars, why, boundVars>>
  BY DEF Photo, JpegThread, EncodeJpeg, vars
<1> QED BY <1>1, <1>2, <1>3, <1>4, <1>5, <1>6, <1>7 DEF Next

\* A step keeps the types.
LEMMA NextTyped ==
  ASSUME TypeOK, [Next]_vars
  PROVE  TypeOK'
<1>1. TypeOK' <=> PcTyped' /\ DataTyped' /\ PhotoTypes'
  BY TypeParts, PTL
<1> QED BY <1>1, TypeParts, NextPcTyped, NextDataTyped, NextPhotoTyped

\* The variables keep their types.
THEOREM VideoTypes == Spec => []TypeOK
  BY InitTyped, NextTyped, PTL DEF Spec
-----------------------------------------------------------------------------
(* What there is, by where the one caller inside is.                       *)

\* One caller at most is inside deinit or init, and none beside main's exit.
Solo ==
  /\ \A t, u \in Callers : Inside(t) /\ Inside(u) => t = u
  /\ pc[Main] \in {"audio", "audiooff", "audiojoin", "end"} => \A c \in Clients : ~Inside(c)

\* The steps before which an encoder thread has been joined, or not been made.
Gone(s) ==
  {"join3", "rtmpoff", "del", "null", "start", "create", "sess0", "sess1", "rtmpon", "pipe0"}
    \cup (IF s = 0 THEN {"join1"} ELSE {"pipe1"})
Joined ==
  \A s \in Streams :
    /\ \A t \in Callers : pc[t] \in Gone(s) => venc[s] = "none"
    /\ pc[Main] \in {"audiooff", "audiojoin", "end"} => venc[s] = "none"

\* The server and its sessions, between restarts and step by step in one.
Stopping == {"audiooff", "audiojoin", "end"}
Standing ==
  /\ (\A t \in Callers : pc[t] \notin Replacing) /\ pc[Main] \notin Stopping =>
       rtsp = "live" /\ sess[0] = "live" /\ sess[1] = "live"
  /\ \A t \in Callers : pc[t] \in {"start", "create"} => rtsp = "null"
  /\ \A t \in Callers : pc[t] \in {"sess0", "sess1"} => rtsp = "live"
  /\ \A t \in Callers : pc[t] = "sess1" => sess[0] = "live"
  /\ \A t \in Callers : pc[t] \in {"pipe0", "pipe1"} => rtmp[0] /\ rtmp[1]
  /\ pc[Main] \in Stopping => rtsp = "null"

\* What an encoder thread finds as long as it is there.
Served ==
  \A s \in Streams : venc[s] # "none" =>
    chan[s] /\ rtmp[s] /\ rtsp = "live" /\ sess[s] = "live"

\* Who holds g_rtsp_mutex.
MutexHeld ==
  /\ \A s \in Streams : venc[s] = "tx" <=> mutex = s
  /\ audio = "tx" <=> mutex = Audio

\* The run flag is down while threads are joined.
Stopped == \A t \in Callers : pc[t] \in {"join0", "join1", "join3"} => ~run

\* The audio thread comes after the first start and goes with the exit.
AudioPhases ==
  pc[Main] \in InInit \cup {"audio", "end"} => audio = "none"

\* Unless a block failed, there is a thread for each join.
Created ==
  fails = 0 =>
    /\ \A t \in Callers : pc[t] \in {"stop", "join0", "pipe1", "pipe3"} => venc[0] # "none"
    /\ \A t \in Callers : pc[t] \in {"stop", "join0", "join1", "pipe3"} => venc[1] # "none"
    /\ \A t \in Callers : pc[t] \in {"stop", "join0", "join1", "join3"} => jpeg # "none"
    /\ (\A t \in Callers : ~Inside(t)) /\ pc[Main] \in {"audio", "up"} =>
         venc[0] # "none" /\ venc[1] # "none" /\ jpeg # "none"
    /\ pc[Main] \in InDeinit \cup {"up", "audiooff", "audiojoin"} => audio # "none"

VideoInv ==
  why = {} => Solo /\ Joined /\ Standing /\ Served /\ MutexHeld /\ Stopped /\ AudioPhases
              /\ Created

\* The invariant holds when the process starts: main alone is inside.
LEMMA InitVideoInv == Init => VideoInv
<1> SUFFICES ASSUME Init PROVE VideoInv
  OBVIOUS
<1>1. \A t \in Callers : Inside(t) <=> t = Main
  BY VideoAssumption DEF Init, Callers, Inside, InDeinit, InInit
<1>2. Solo
  BY <1>1, VideoAssumption DEF Init, Solo, Callers
<1>3. Joined /\ Standing /\ Served /\ MutexHeld /\ Stopped
  BY VideoAssumption DEF Init, Joined, Standing, Served, MutexHeld, Stopped, Callers, Replacing,
     Stopping, Streams, Gone
<1>4. AudioPhases /\ Created
  BY VideoAssumption DEF Init, AudioPhases, Created, PhotoInit, Callers, InInit, InDeinit, Inside
<1> QED BY <1>2, <1>3, <1>4 DEF VideoInv

\* Where a caller's step takes it.
LEMMA Moves ==
  ASSUME TypeOK, NEW t \in Callers, VideoStep(t)
  PROVE  /\ Inside(t)
         /\ \A u \in Callers : u # t => pc'[u] = pc[u]
         /\ pc[t] \notin {"null", "pipe3"} => pc'[t] = Order[pc[t]]
         /\ pc[t] = "null" => pc'[t] = IF t = Main THEN "audiooff" ELSE "start"
         /\ pc[t] = "pipe3" => pc'[t] = IF t = Main THEN "audio" ELSE "idle"
<1>0. pc \in [Callers -> MainPc \cup {"idle"}]
  BY DEF TypeOK
<1>1. CASE RtspNull(t)
  BY <1>0, <1>1 DEF RtspNull, Goto, Inside, InDeinit
<1>2. CASE PipeInitJpeg(t)
  BY <1>0, <1>2 DEF PipeInitJpeg, Goto, Inside, InInit
<1>3. CASE ~RtspNull(t) /\ ~PipeInitJpeg(t)
  <2>1. Forward(t) /\ pc[t] \in InDeinit \cup InInit /\ pc[t] \notin {"null", "pipe3"}
    BY <1>3 DEF VideoStep, Stop, JoinVenc, JoinJpeg, RtmpDeinit, RtspDelete,
       Start, RtspCreate, RtspSession, RtmpInit, PipeInit, InDeinit, InInit
  <2> QED BY <1>0, <2>1 DEF Forward, Goto, Inside
<1> QED BY <1>1, <1>2, <1>3

\* Beside a caller inside the others are idle, and main serves clients.
LEMMA Alone ==
  ASSUME TypeOK, Solo, NEW t \in Callers, Inside(t)
  PROVE  /\ \A u \in Callers : u # t => pc[u] \notin InDeinit \cup InInit
         /\ t # Main => pc[Main] = "up"
BY VideoAssumption DEF TypeOK, Solo, Inside, Callers, MainPc

\* The threads' steps change nothing of this.
LEMMA Aside ==
  (\E c \in Photographers : Photo(c)) \/ JpegThread \/ EncodeJpeg
    \/ (\E s \in Streams : Venc(s)) \/ AudioThread \/ UNCHANGED vars
  => UNCHANGED <<pc, why, run, rtsp, sess, rtmp, chan, fails>>
BY DEF Photo, JpegThread, EncodeJpeg, Venc, VencLoop, VencGet, VencLock, VencSent,
   VencWritten, AudioThread, AudioLoop, AudioTest, AudioLock, AudioSent, vars, rtspVars, boundVars

\* A step that leaves nothing undefined starts from where nothing was.
LEMMA WasCalm == ASSUME [Next]_vars, why' = {} PROVE why = {}
BY DEF Next, vars

\* Main at the end of a part of its own.
LEMMA MainMoves ==
  ASSUME TypeOK, MainStep
  PROVE  /\ \A u \in Callers : u # Main => pc'[u] = pc[u]
         /\ \/ AudioInit /\ pc[Main] = "audio" /\ pc'[Main] = "up"
            \/ AudioStop /\ pc[Main] = "audiooff" /\ pc'[Main] = "audiojoin"
            \/ AudioJoin /\ pc[Main] = "audiojoin" /\ pc'[Main] = "end"
         /\ UNCHANGED <<run, venc, chan, rtsp, sess, rtmp, mutex, jpeg>>
BY DEF TypeOK, MainStep, AudioInit, AudioStop, AudioJoin, Goto, Callers, rtspVars, photoVars

\* Who enters, main's exit or a restart, meets nobody inside.
LEMMA Enters ==
  ASSUME TypeOK, Solo, NEW t \in Callers, why = {}, why' = {},
         (t = Main /\ Exit) \/ (t \in Clients /\ Restart(t))
  PROVE  /\ pc[Main] = "up"
         /\ \A u \in Callers : ~Inside(u)
         /\ \A u \in Callers : u # t => pc'[u] = pc[u]
         /\ pc'[t] = "stop"
         /\ UNCHANGED <<run, venc, chan, rtsp, sess, rtmp, mutex, audio, jpeg, fails>>
<1> USE VideoAssumption DEF TypeOK, Callers, Goto, rtspVars, audioVars, boundVars, photoVars
<1>1. CASE t = Main /\ Exit
  BY <1>1 DEF Exit, Inside, InDeinit, InInit
<1>2. CASE t \in Clients /\ Restart(t)
  <2>1. pc[t] = "idle" /\ pc' = [pc EXCEPT ![t] = "stop"]
    BY <1>2 DEF Restart
  <2>2. /\ \A d \in Callers \ {t} : ~Inside(d)
        /\ pc[Main] \notin {"audiooff", "audiojoin", "end", "audio"}
    BY <1>2 DEF Restart
  <2>3. ~Inside(t) /\ ~Inside(Main)
    BY <1>2, <2>1, <2>2 DEF Inside, InDeinit, InInit
  <2>4. pc[Main] = "up"
    BY <2>2, <2>3 DEF Inside, MainPc
  <2>5. UNCHANGED <<run, venc, chan, rtsp, sess, rtmp, mutex, audio, jpeg, fails>>
    BY <1>2 DEF Restart
  <2> QED BY <1>2, <2>1, <2>2, <2>3, <2>4, <2>5
<1> QED BY <1>1, <1>2

\* One caller at a time.
LEMMA NextSolo ==
  ASSUME TypeOK, VideoInv, [Next]_vars, why' = {}
  PROVE  Solo'
<1>0. why = {}
  BY WasCalm
<1>00. Solo
  BY <1>0 DEF VideoInv
<1>1. ASSUME NEW t \in Callers, VideoStep(t) PROVE Solo'
  <2>1. \A u \in Callers : u # t => ~Inside(u)' /\ pc'[u] = pc[u]
    BY <1>00, <1>1, Moves, Alone DEF Inside
  <2>2. t # Main => pc'[Main] = "up"
    BY <1>00, <1>1, Moves, Alone DEF Callers
  <2> QED BY <2>1, <2>2, VideoAssumption DEF Solo, Callers
<1>2. CASE MainStep
  <2>1. \A u \in Callers : Inside(u)' => Inside(u)
    BY <1>2, MainMoves DEF Inside, InDeinit, InInit
  <2> QED BY <1>00, <1>2, <2>1, MainMoves, VideoAssumption DEF Solo, Callers
<1>3. ASSUME NEW t \in Callers, (t = Main /\ Exit) \/ (t \in Clients /\ Restart(t)) PROVE Solo'
  <2>1. \A u \in Callers : u # t => ~Inside(u)'
    BY <1>0, <1>00, <1>3, Enters DEF Inside
  <2>2. pc'[Main] \in {"up", "stop"}
    BY <1>0, <1>00, <1>3, Enters DEF Callers
  <2> QED BY <2>1, <2>2 DEF Solo
<1>4. CASE (\E c \in Photographers : Photo(c)) \/ JpegThread \/ EncodeJpeg
             \/ (\E s \in Streams : Venc(s)) \/ AudioThread \/ UNCHANGED vars
  BY <1>00, <1>4, Aside DEF Solo, Inside
<1> QED BY <1>0, <1>1, <1>2, <1>3, <1>4 DEF Next, Callers

\* What a caller's step does to the flag, the server and its sessions.
Moved(t) ==
  \/ pc[t] = "stop" /\ pc'[t] = "join0" /\ run' = FALSE /\ UNCHANGED <<rtsp, sess, rtmp>>
  \/ /\ pc[t] \in {"join0", "join1"} /\ pc'[t] \in {"join1", "join3"}
     /\ UNCHANGED <<run, rtsp, sess, rtmp>>
  \/ pc[t] = "join3" /\ pc'[t] = "rtmpoff" /\ UNCHANGED <<rtsp, sess, rtmp>>
  \/ pc[t] = "rtmpoff" /\ pc'[t] = "del" /\ UNCHANGED <<rtsp, sess>>
  \/ pc[t] = "del" /\ pc'[t] = "null"
  \/ /\ pc[t] = "null" /\ pc'[t] = IF t = Main THEN "audiooff" ELSE "start"
     /\ rtsp' = "null"
  \/ pc[t] = "start" /\ pc'[t] = "create" /\ UNCHANGED rtsp
  \/ pc[t] = "create" /\ pc'[t] = "sess0" /\ rtsp' = "live"
  \/ /\ pc[t] = "sess0" /\ pc'[t] = "sess1" /\ UNCHANGED rtsp
     /\ sess' = [sess EXCEPT ![0] = "live"]
  \/ /\ pc[t] = "sess1" /\ pc'[t] = "rtmpon" /\ UNCHANGED rtsp
     /\ sess' = [sess EXCEPT ![1] = "live"]
  \/ /\ pc[t] = "rtmpon" /\ pc'[t] = "pipe0" /\ UNCHANGED <<rtsp, sess>>
     /\ rtmp' = [s \in Streams |-> TRUE]
  \/ pc[t] = "pipe0" /\ pc'[t] = "pipe1" /\ UNCHANGED <<rtsp, sess, rtmp>>
  \/ pc[t] = "pipe1" /\ pc'[t] = "pipe3" /\ UNCHANGED <<rtsp, sess, rtmp>>
  \/ /\ pc[t] = "pipe3" /\ pc'[t] = IF t = Main THEN "audio" ELSE "idle"
     /\ UNCHANGED <<rtsp, sess, rtmp>>

\* rkipc_rtsp_init makes one session after the other.
LEMMA SessionMade ==
  ASSUME NEW t \in Callers, TypeOK, RtspSession(t)
  PROVE  /\ rtsp' = rtsp
         /\ \/ /\ pc[t] = "sess0" /\ pc'[t] = "sess1"
               /\ sess' = [sess EXCEPT ![0] = "live"]
            \/ /\ pc[t] = "sess1" /\ pc'[t] = "rtmpon"
               /\ sess' = [sess EXCEPT ![1] = "live"]
<1>1. VideoStep(t)
  BY DEF VideoStep
<1>2. pc[t] \in {"sess0", "sess1"} /\ sess' = [sess EXCEPT ![Of[pc[t]]] = "live"] /\ rtsp' = rtsp
  BY DEF RtspSession, rtspVars
<1>3. pc'[t] = Order[pc[t]]
  BY <1>1, <1>2, Moves
<1>4. CASE pc[t] = "sess0"
  BY <1>2, <1>3, <1>4, OrderIs, OfIs
<1>5. CASE pc[t] = "sess1"
  BY <1>2, <1>3, <1>5, OrderIs, OfIs
<1> QED BY <1>2, <1>4, <1>5

\* Each step of deinit and init is a line of that table.
LEMMA Effects ==
  ASSUME TypeOK, NEW t \in Callers, VideoStep(t)
  PROVE  Moved(t)
<1> USE Moves, OrderIs, OfIs DEF Moved, rtspVars
<1>1. CASE Stop(t)
  BY <1>1 DEF Stop
<1>2. CASE JoinVenc(t)
  BY <1>2 DEF JoinVenc
<1>3. CASE JoinJpeg(t)
  BY <1>3 DEF JoinJpeg
<1>4. CASE RtmpDeinit(t)
  BY <1>4 DEF RtmpDeinit
<1>5. CASE RtspDelete(t)
  BY <1>5 DEF RtspDelete
<1>6. CASE RtspNull(t)
  BY <1>6 DEF RtspNull
<1>7. CASE Start(t)
  BY <1>7 DEF Start
<1>8. CASE RtspCreate(t)
  BY <1>8 DEF RtspCreate
<1>9. CASE RtspSession(t)
  BY <1>9, SessionMade
<1>10. CASE RtmpInit(t)
  BY <1>10 DEF RtmpInit
<1>11. CASE PipeInit(t)
  BY <1>11 DEF PipeInit
<1>12. CASE PipeInitJpeg(t)
  BY <1>12 DEF PipeInitJpeg
<1> QED BY <1>1, <1>2, <1>3, <1>4, <1>5, <1>6, <1>7, <1>8, <1>9, <1>10, <1>11, <1>12 DEF VideoStep

\* An encoder thread goes on; it neither appears nor disappears.
LEMMA VencStep ==
  ASSUME NEW s \in Streams, Venc(s)
  PROVE  /\ venc[s] \in {"loop", "get", "wait", "tx", "write"}
         /\ \E l \in VencPc \ {"none"} : venc' = [venc EXCEPT ![s] = l]
         /\ UNCHANGED <<audio, jpeg>>
<1>1. venc[s] \in {"loop", "get", "wait", "tx", "write"} /\ UNCHANGED <<audio, jpeg>>
  BY DEF Venc, VencLoop, VencGet, VencLock, VencSent, VencWritten, audioVars, photoVars
<1>2. \E l \in {"loop", "get", "wait", "tx", "write", "ended"} : VencGoto(s, l)
  BY DEF Venc, VencLoop, VencGet, VencLock, VencSent, VencWritten
<1> QED BY <1>1, <1>2 DEF VencGoto, VencPc

\* Photos, the jpeg thread and the audio thread leave the encoder threads alone.
LEMMA VencAside ==
  (\E c \in Photographers : Photo(c)) \/ JpegThread \/ EncodeJpeg \/ AudioThread
    \/ UNCHANGED vars => venc' = venc
BY DEF Photo, JpegThread, EncodeJpeg, AudioThread, AudioLoop, AudioTest, AudioLock,
   AudioSent, vars

\* A caller's step, seen from beside it.
LEMMA CallerStep ==
  ASSUME TypeOK, VideoInv, why = {}, NEW t \in Callers, VideoStep(t)
  PROVE  /\ \A u \in Callers : u # t => pc'[u] \notin InDeinit \cup InInit
         /\ t # Main => pc'[Main] = "up"
<1>1. Solo
  BY DEF VideoInv
<1>2. t # Main => pc[Main] = "up"
  BY <1>1, Moves, Alone
<1>3. Main \in Callers
  BY DEF Callers
<1> QED BY <1>1, <1>2, <1>3, Moves, Alone

\* Joined threads stay joined until the pipe is set up again.
LEMMA NextJoined ==
  ASSUME TypeOK, VideoInv, [Next]_vars, why' = {}
  PROVE  Joined'
<1>0. why = {}
  BY WasCalm
<1>1. ASSUME NEW t \in Callers, VideoStep(t) PROVE Joined'
  <2>1. \A u \in Callers : u # t => pc'[u] \notin InDeinit \cup InInit
    BY <1>0, <1>1, CallerStep
  <2>2. t # Main => pc'[Main] = "up"
    BY <1>0, <1>1, CallerStep
  <2>3. Joined
    BY <1>0 DEF VideoInv
  <2>4. CASE JoinVenc(t) \/ PipeInit(t)
    <3>1. venc \in [Streams -> VencPc]
      BY DEF TypeOK
    <3>2. \/ pc[t] = "join0" /\ pc'[t] = "join1" /\ venc' = [venc EXCEPT ![0] = "none"]
          \/ pc[t] = "join1" /\ pc'[t] = "join3" /\ venc' = [venc EXCEPT ![1] = "none"]
          \/ pc[t] = "pipe0" /\ pc'[t] = "pipe1"
               /\ (venc' = venc \/ venc' = [venc EXCEPT ![0] = "loop"])
          \/ pc[t] = "pipe1" /\ pc'[t] = "pipe3"
      BY <1>0, <1>1, <2>4, Moves, OrderIs, OfIs DEF JoinVenc, PipeInit
    <3> QED BY <2>1, <2>2, <2>3, <3>1, <3>2 DEF Joined, Gone, Streams, InDeinit, InInit, Callers
  <2>5. CASE ~JoinVenc(t) /\ ~PipeInit(t)
    <3>1. venc' = venc /\ pc[t] \notin {"join0", "join1", "pipe0", "pipe1"}
      BY <1>1, <2>5 DEF VideoStep, Stop, JoinVenc, JoinJpeg, RtmpDeinit, RtspDelete, RtspNull,
         Start, RtspCreate, RtspSession, RtmpInit, PipeInit, PipeInitJpeg
    <3>2. \A s \in Streams : pc'[t] \in Gone(s) => venc[s] = "none"
      BY <1>1, <2>3, <3>1, Moves, OrderIs DEF Joined, Gone, Inside, InDeinit, InInit
    <3>3. \A s \in Streams : pc'[t] = "audiooff" => venc[s] = "none"
      BY <1>1, <2>3, <3>1, Moves, OrderIs DEF Joined, Gone, Inside, InDeinit, InInit
    <3>4. pc'[t] \in {"audiooff", "audiojoin", "end"} => pc'[t] = "audiooff"
      BY <1>1, <3>1, Moves, OrderIs DEF Inside, InDeinit, InInit
    <3> QED BY <2>1, <2>2, <3>1, <3>2, <3>3, <3>4 DEF Joined, Gone, InDeinit, InInit, Callers
  <2> QED BY <2>4, <2>5
<1>2. CASE MainStep
  BY <1>0, <1>2, MainMoves, VideoAssumption DEF VideoInv, Joined, Gone, Callers
<1>3. ASSUME NEW t \in Callers, (t = Main /\ Exit) \/ (t \in Clients /\ Restart(t))
      PROVE  Joined'
  <2>1. Solo
    BY <1>0 DEF VideoInv
  <2> QED BY <1>0, <1>3, <2>1, Enters DEF VideoInv, Joined, Gone, Callers, Inside, InDeinit, InInit
<1>4. CASE (\E c \in Photographers : Photo(c)) \/ JpegThread \/ EncodeJpeg
             \/ (\E s \in Streams : Venc(s)) \/ AudioThread \/ UNCHANGED vars
  <2>1. \A s \in Streams : venc[s] = "none" => venc'[s] = "none"
    BY <1>4, VencStep, VencAside DEF TypeOK
  <2> QED BY <1>0, <1>4, <2>1, Aside DEF VideoInv, Joined
<1> QED BY <1>0, <1>1, <1>2, <1>3, <1>4 DEF Next, Callers

\* The server and its sessions follow the restart.
LEMMA NextStanding ==
  ASSUME TypeOK, VideoInv, [Next]_vars, why' = {}
  PROVE  Standing'
<1>0. why = {}
  BY WasCalm
<1>1. ASSUME NEW t \in Callers, VideoStep(t) PROVE Standing'
  <2>1. \A u \in Callers : u # t => pc'[u] \notin InDeinit \cup InInit
    BY <1>0, <1>1, CallerStep
  <2>2. t # Main => pc'[Main] = "up"
    BY <1>0, <1>1, CallerStep
  <2>3. Standing /\ Joined
    BY <1>0 DEF VideoInv
  <2>4. Moved(t)
    BY <1>1, Effects
  <2>5. \A u \in Callers : u # t => pc[u] \notin InDeinit \cup InInit
    BY <1>0, <1>1, Moves, Alone DEF VideoInv
  <2>6. t # Main => pc[Main] = "up"
    BY <1>0, <1>1, Moves, Alone DEF VideoInv
  <2>7. sess \in [Streams -> Pointer]
    BY DEF TypeOK
  <2> QED BY <2>1, <2>2, <2>3, <2>4, <2>5, <2>6, <2>7
          DEF Moved, Standing, Replacing, Stopping, Streams, InDeinit, InInit, Callers
<1>2. CASE MainStep
  BY <1>0, <1>2, MainMoves, VideoAssumption DEF VideoInv, Standing, Replacing, Stopping, Callers
<1>3. ASSUME NEW t \in Callers, (t = Main /\ Exit) \/ (t \in Clients /\ Restart(t))
      PROVE  Standing'
  <2>1. Solo
    BY <1>0 DEF VideoInv
  <2>2. \A u \in Callers : pc[u] \notin Replacing
    BY <1>0, <1>3, <2>1, Enters DEF Replacing, Inside, InDeinit, InInit
  <2> QED BY <1>0, <1>3, <2>1, <2>2, Enters DEF VideoInv, Standing, Replacing, Stopping, Callers
<1>4. CASE (\E c \in Photographers : Photo(c)) \/ JpegThread \/ EncodeJpeg
             \/ (\E s \in Streams : Venc(s)) \/ AudioThread \/ UNCHANGED vars
  BY <1>0, <1>4, Aside DEF VideoInv, Standing, Replacing
<1> QED BY <1>0, <1>1, <1>2, <1>3, <1>4 DEF Next, Callers

\* Nobody raises the flag while threads are joined.
LEMMA NextStopped ==
  ASSUME TypeOK, VideoInv, [Next]_vars, why' = {}
  PROVE  Stopped'
<1>0. why = {}
  BY WasCalm
<1>1. ASSUME NEW t \in Callers, VideoStep(t) PROVE Stopped'
  <2>1. \A u \in Callers : u # t => pc'[u] \notin InDeinit \cup InInit
    BY <1>0, <1>1, CallerStep
  <2>2. t # Main => pc'[Main] = "up"
    BY <1>0, <1>1, CallerStep
  <2>3. Stopped
    BY <1>0 DEF VideoInv
  <2>4. Moved(t)
    BY <1>1, Effects
  <2> QED BY <2>1, <2>3, <2>4 DEF Moved, Stopped, InDeinit
<1>2. CASE MainStep
  BY <1>0, <1>2, MainMoves DEF VideoInv, Stopped, Callers
<1>3. ASSUME NEW t \in Callers, (t = Main /\ Exit) \/ (t \in Clients /\ Restart(t))
      PROVE  Stopped'
  <2>1. Solo
    BY <1>0 DEF VideoInv
  <2> QED BY <1>0, <1>3, <2>1, Enters DEF VideoInv, Stopped, Callers, Inside, InDeinit
<1>4. CASE (\E c \in Photographers : Photo(c)) \/ JpegThread \/ EncodeJpeg
             \/ (\E s \in Streams : Venc(s)) \/ AudioThread \/ UNCHANGED vars
  BY <1>0, <1>4, Aside DEF VideoInv, Stopped
<1> QED BY <1>0, <1>1, <1>2, <1>3, <1>4 DEF Next, Callers

\* The audio thread comes and goes with main's own steps.
LEMMA NextAudioPhases ==
  ASSUME TypeOK, VideoInv, [Next]_vars, why' = {}
  PROVE  AudioPhases'
<1>0. why = {}
  BY WasCalm
<1>1. ASSUME NEW t \in Callers, VideoStep(t) PROVE AudioPhases'
  <2>1. \A u \in Callers : u # t => pc'[u] \notin InDeinit \cup InInit
    BY <1>0, <1>1, CallerStep
  <2>2. t # Main => pc'[Main] = "up"
    BY <1>0, <1>1, CallerStep
  <2>3. AudioPhases
    BY <1>0 DEF VideoInv
  <2>4. audio' = audio
    BY <1>1 DEF VideoStep, Stop, JoinVenc, JoinJpeg, RtmpDeinit, RtspDelete, RtspNull, Start,
       RtspCreate, RtspSession, RtmpInit, PipeInit, PipeInitJpeg, audioVars
  <2>5. t = Main /\ pc'[t] \in InInit \cup {"audio", "end"} => pc[t] \in InInit
    BY <1>1, Moves, OrderIs DEF Inside, InDeinit, InInit
  <2> QED BY <2>2, <2>3, <2>4, <2>5 DEF AudioPhases, InInit
<1>2. CASE MainStep
  <2>1. CASE AudioInit \/ AudioStop
    BY <1>2, <2>1, MainMoves DEF AudioInit, AudioStop, AudioPhases, InInit
  <2>2. CASE AudioJoin
    BY <1>0, <2>2 DEF AudioJoin, AudioPhases
  <2> QED BY <1>2, <2>1, <2>2 DEF MainStep
<1>3. ASSUME NEW t \in Callers, (t = Main /\ Exit) \/ (t \in Clients /\ Restart(t))
      PROVE  AudioPhases'
  <2>1. Solo
    BY <1>0 DEF VideoInv
  <2>2. pc'[Main] \in {"up", "stop"}
    BY <1>0, <1>3, <2>1, Enters DEF Callers
  <2> QED BY <2>2 DEF AudioPhases, InInit
<1>4. CASE (\E c \in Photographers : Photo(c)) \/ JpegThread \/ EncodeJpeg
             \/ (\E s \in Streams : Venc(s)) \/ AudioThread \/ UNCHANGED vars
  <2>1. CASE UNCHANGED audio
    BY <1>0, <1>4, <2>1, Aside DEF VideoInv, AudioPhases
  <2>2. CASE AudioThread
    BY <1>0, <2>2, Aside DEF VideoInv, AudioPhases, AudioThread, AudioLoop, AudioTest,
       AudioLock, AudioSent
  <2>3. (\E c \in Photographers : Photo(c)) \/ JpegThread \/ EncodeJpeg \/ UNCHANGED vars
          => UNCHANGED audio
    BY DEF Photo, JpegThread, EncodeJpeg, audioVars, vars
  <2> QED BY <1>4, <2>1, <2>2, <2>3, VencStep
<1> QED BY <1>0, <1>1, <1>2, <1>3, <1>4 DEF Next, Callers

\* The mutex is given back by whom it was taken.
LEMMA NextMutexHeld ==
  ASSUME TypeOK, VideoInv, [Next]_vars, why' = {}
  PROVE  MutexHeld'
<1>0. why = {}
  BY WasCalm
<1>1. ASSUME NEW t \in Callers, VideoStep(t) PROVE MutexHeld'
  <2>1. \A u \in Callers : u # t => pc'[u] \notin InDeinit \cup InInit
    BY <1>0, <1>1, CallerStep
  <2>2. t # Main => pc'[Main] = "up"
    BY <1>0, <1>1, CallerStep
  <2>3. MutexHeld /\ Joined
    BY <1>0 DEF VideoInv
  <2>4. UNCHANGED <<mutex, audio>>
    BY <1>1 DEF VideoStep, Stop, JoinVenc, JoinJpeg, RtmpDeinit, RtspDelete, RtspNull, Start,
       RtspCreate, RtspSession, RtmpInit, PipeInit, PipeInitJpeg, audioVars
  <2>5. \A s \in Streams : venc[s] = "tx" <=> venc'[s] = "tx"
    <3>1. CASE JoinVenc(t)
      BY <1>0, <3>1, OfIs DEF JoinVenc, TypeOK, Streams
    <3>2. CASE PipeInit(t)
      <4>1. CASE venc' = venc
        BY <4>1
      <4>2. CASE pc[t] = "pipe0" /\ venc' = [venc EXCEPT ![0] = "loop"]
        BY <2>3, <4>2 DEF Joined, Gone, TypeOK, Streams
      <4>3. CASE pc[t] = "pipe1" /\ venc' = [venc EXCEPT ![1] = "loop"]
        BY <2>3, <4>3 DEF Joined, Gone, TypeOK, Streams
      <4> QED BY <3>2, <4>1, <4>2, <4>3, OfIs DEF PipeInit
    <3>3. CASE ~JoinVenc(t) /\ ~PipeInit(t)
      BY <1>1, <3>3 DEF VideoStep, Stop, JoinJpeg, RtmpDeinit, RtspDelete, RtspNull, Start,
         RtspCreate, RtspSession, RtmpInit, PipeInitJpeg
    <3> QED BY <3>1, <3>2, <3>3
  <2> QED BY <2>3, <2>4, <2>5 DEF MutexHeld
<1>2. CASE MainStep
  <2>1. (audio = "tx" <=> audio' = "tx") /\ UNCHANGED <<venc, mutex>>
    BY <1>0, <1>2 DEF MainStep, AudioInit, AudioStop, AudioJoin, VideoInv, AudioPhases, audioVars
  <2> QED BY <1>0, <2>1 DEF VideoInv, MutexHeld
<1>3. ASSUME NEW t \in Callers, (t = Main /\ Exit) \/ (t \in Clients /\ Restart(t))
      PROVE  MutexHeld'
  <2>1. Solo
    BY <1>0 DEF VideoInv
  <2> QED BY <1>0, <1>3, <2>1, Enters DEF VideoInv, MutexHeld
<1>4. CASE (\E c \in Photographers : Photo(c)) \/ JpegThread \/ EncodeJpeg
             \/ (\E s \in Streams : Venc(s)) \/ AudioThread \/ UNCHANGED vars
  <2>0. MutexHeld /\ Nobody \notin Streams \cup {Audio} /\ Audio \notin Streams
    BY <1>0, VideoAssumption DEF VideoInv
  <2>1. CASE (\E c \in Photographers : Photo(c)) \/ JpegThread \/ EncodeJpeg \/ UNCHANGED vars
    BY <2>0, <2>1 DEF Photo, JpegThread, EncodeJpeg, vars, audioVars, MutexHeld
  <2>2. CASE AudioThread
    BY <2>0, <2>2 DEF AudioThread, AudioLoop, AudioTest, AudioLock, AudioSent, NextSession,
       MutexHeld
  <2>3. ASSUME NEW s \in Streams, Venc(s) PROVE MutexHeld'
    <3>1. venc \in [Streams -> VencPc] /\ UNCHANGED audio
      BY <2>3, VencStep DEF TypeOK
    <3>2. CASE VencLoop(s) \/ VencGet(s) \/ VencWritten(s)
      BY <2>0, <3>1, <3>2 DEF VencLoop, VencGet, VencWritten, VencGoto, MutexHeld
    <3>3. CASE VencLock(s)
      BY <2>0, <3>1, <3>3 DEF VencLock, VencGoto, MutexHeld
    <3>4. CASE VencSent(s)
      BY <2>0, <3>1, <3>4 DEF VencSent, VencGoto, MutexHeld
    <3> QED BY <2>3, <3>2, <3>3, <3>4 DEF Venc
  <2> QED BY <1>4, <2>1, <2>2, <2>3
<1> QED BY <1>0, <1>1, <1>2, <1>3, <1>4 DEF Next, Callers

\* What an encoder thread uses is deleted after it is gone and made before it is there.
LEMMA NextServed ==
  ASSUME TypeOK, VideoInv, [Next]_vars, why' = {}
  PROVE  Served'
<1>0. why = {}
  BY WasCalm
<1>1. ASSUME NEW t \in Callers, VideoStep(t) PROVE Served'
  <2>1. \A u \in Callers : u # t => pc'[u] \notin InDeinit \cup InInit
    BY <1>0, <1>1, CallerStep
  <2>2. t # Main => pc'[Main] = "up"
    BY <1>0, <1>1, CallerStep
  <2>3. Served /\ Joined /\ Standing
    BY <1>0 DEF VideoInv
  <2>4. /\ venc \in [Streams -> VencPc] /\ chan \in [Streams -> BOOLEAN]
        /\ 0 \in Streams /\ 1 \in Streams
    BY DEF TypeOK, Streams
  <2>5. pc[t] \in {"join3", "rtmpoff", "del", "null", "start", "create", "sess0", "sess1",
                   "rtmpon"}
          => venc[0] = "none" /\ venc[1] = "none"
    BY <2>3, <2>4 DEF Joined, Gone
  <2>6. CASE JoinVenc(t)
    <3>1. \E s \in Streams : /\ venc' = [venc EXCEPT ![s] = "none"]
                             /\ chan' = [chan EXCEPT ![s] = FALSE]
      BY <1>0, <2>4, <2>6, OfIs DEF JoinVenc
    <3>2. UNCHANGED <<rtsp, sess, rtmp>>
      BY <2>6 DEF JoinVenc, rtspVars
    <3> QED BY <2>3, <2>4, <3>1, <3>2 DEF Served
  <2>7. CASE PipeInit(t)
    <3>1. \/ UNCHANGED <<venc, chan>>
          \/ \E s \in Streams : /\ venc' = [venc EXCEPT ![s] = "loop"]
                                /\ chan' = [chan EXCEPT ![s] = TRUE]
      BY <1>0, <2>4, <2>7, OfIs DEF PipeInit
    <3>2. UNCHANGED <<rtsp, sess, rtmp>>
      BY <2>7 DEF PipeInit, rtspVars
    <3>3. rtsp = "live" /\ sess[0] = "live" /\ sess[1] = "live" /\ rtmp[0] /\ rtmp[1]
      <4>1. pc[t] \in {"pipe0", "pipe1"}
        BY <2>7 DEF PipeInit
      <4>2. \A u \in Callers : pc[u] \notin Replacing
        BY <1>0, <1>1, <4>1, Moves, Alone DEF VideoInv, Replacing, InDeinit, InInit
      <4>3. pc[Main] \notin Stopping
        BY <1>0, <1>1, <4>1, Moves, Alone DEF VideoInv, Stopping, Callers
      <4> QED BY <2>3, <4>1, <4>2, <4>3 DEF Standing
    <3> QED BY <2>3, <2>4, <3>1, <3>2, <3>3 DEF Served, Streams
  <2>8. CASE ~JoinVenc(t) /\ ~PipeInit(t)
    <3>1. UNCHANGED <<venc, chan>>
      BY <1>1, <2>8 DEF VideoStep, Stop, JoinJpeg, RtmpDeinit, RtspDelete, RtspNull, Start,
         RtspCreate, RtspSession, RtmpInit, PipeInitJpeg
    <3>2. \/ venc[0] = "none" /\ venc[1] = "none"
          \/ UNCHANGED <<rtsp, sess, rtmp>>
      BY <1>1, <2>5, Effects DEF Moved
    <3> QED BY <2>3, <3>1, <3>2 DEF Served, Streams
  <2> QED BY <2>6, <2>7, <2>8
<1>2. CASE MainStep
  BY <1>0, <1>2, MainMoves DEF VideoInv, Served
<1>3. ASSUME NEW t \in Callers, (t = Main /\ Exit) \/ (t \in Clients /\ Restart(t))
      PROVE  Served'
  <2>1. Solo
    BY <1>0 DEF VideoInv
  <2> QED BY <1>0, <1>3, <2>1, Enters DEF VideoInv, Served
<1>4. CASE (\E c \in Photographers : Photo(c)) \/ JpegThread \/ EncodeJpeg
             \/ (\E s \in Streams : Venc(s)) \/ AudioThread \/ UNCHANGED vars
  <2>1. \A s \in Streams : venc[s] = "none" => venc'[s] = "none"
    BY <1>4, VencStep, VencAside DEF TypeOK
  <2> QED BY <1>0, <1>4, <2>1, Aside DEF VideoInv, Served
<1> QED BY <1>0, <1>1, <1>2, <1>3, <1>4 DEF Next, Callers

\* What a step does to the jpeg thread's being there.
LEMMA JpegStep ==
  (\E c \in Photographers : Photo(c)) \/ JpegThread \/ EncodeJpeg \/ UNCHANGED vars
    => (jpeg' = "none" => jpeg = "none")
<1>1. ASSUME NEW c \in Photographers, Photo(c) PROVE jpeg' = jpeg
  BY <1>1 DEF Photo, PhotoAsk, PhotoFlag
<1>2. ASSUME JpegThread PROVE jpeg' # "none"
  BY <1>2 DEF JpegThread, Jpeg, JpegFirst, JpegLoop, JpegLook, JpegGrab, JpegSave
<1>3. ASSUME EncodeJpeg \/ UNCHANGED vars PROVE jpeg' = jpeg
  BY <1>3 DEF EncodeJpeg, Encode, vars, photoVars
<1> QED BY <1>1, <1>2, <1>3

\* Unless a block failed, a thread is there when its join comes.
LEMMA NextCreated ==
  ASSUME TypeOK, VideoInv, [Next]_vars, why' = {}
  PROVE  Created'
<1>0. why = {}
  BY WasCalm
<1>1. ASSUME NEW t \in Callers, VideoStep(t) PROVE Created'
  <2>1. \A u \in Callers : u # t => pc'[u] \notin InDeinit \cup InInit
    BY <1>0, <1>1, CallerStep
  <2>2. t # Main => pc'[Main] = "up"
    BY <1>0, <1>1, CallerStep
  <2>3. Created /\ Solo
    BY <1>0 DEF VideoInv
  <2>4. /\ venc \in [Streams -> VencPc] /\ fails \in Nat
        /\ 0 \in Streams /\ 1 \in Streams /\ 0 # 1
    BY DEF TypeOK, Streams
  <2>5. UNCHANGED audio
    BY <1>1 DEF VideoStep, Stop, JoinVenc, JoinJpeg, RtmpDeinit, RtspDelete, RtspNull, Start,
       RtspCreate, RtspSession, RtmpInit, PipeInit, PipeInitJpeg, audioVars
  <2> SUFFICES ASSUME fails' = 0 PROVE Created'
    BY DEF Created
  <2>6. fails = 0
    <3>1. fails' = fails \/ fails' = fails + 1
      BY <1>1 DEF VideoStep, Stop, JoinVenc, JoinJpeg, RtmpDeinit, RtspDelete, RtspNull, Start,
         RtspCreate, RtspSession, RtmpInit, PipeInit, PipeInitJpeg, boundVars
    <3> QED BY <2>4, <3>1
  <2>7. /\ pc[t] = "join0" => venc'[1] = venc[1]
        /\ pc[t] = "pipe0" => venc'[0] # "none"
        /\ pc[t] = "pipe1" => venc'[0] = venc[0] /\ venc'[1] # "none"
        /\ pc[t] \notin {"join0", "join1", "pipe0", "pipe1"} => venc' = venc
    <3>1. CASE JoinVenc(t)
      BY <1>0, <2>4, <3>1, OfIs DEF JoinVenc
    <3>2. CASE PipeInit(t)
      <4>1. /\ pc[t] \in {"pipe0", "pipe1"}
            /\ venc' = [venc EXCEPT ![Of[pc[t]]] = "loop"]
        BY <2>4, <2>6, <3>2 DEF PipeInit
      <4>2. CASE pc[t] = "pipe0"
        BY <2>4, <4>1, <4>2, OfIs
      <4>3. CASE pc[t] = "pipe1"
        BY <2>4, <4>1, <4>3, OfIs
      <4> QED BY <4>1, <4>2, <4>3
    <3>3. CASE ~JoinVenc(t) /\ ~PipeInit(t)
      BY <1>1, <3>3 DEF VideoStep, Stop, JoinJpeg, RtmpDeinit, RtspDelete, RtspNull, Start,
         RtspCreate, RtspSession, RtmpInit, PipeInitJpeg
    <3> QED BY <3>1, <3>2, <3>3
  <2>8. /\ pc[t] = "pipe3" => jpeg' # "none"
        /\ pc[t] \notin {"join3", "pipe3"} => jpeg' = jpeg
    <3>1. CASE JoinJpeg(t)
      BY <3>1 DEF JoinJpeg
    <3>2. CASE PipeInitJpeg(t)
      BY <2>4, <2>6, <3>2 DEF PipeInitJpeg, JpegInit
    <3>3. CASE ~JoinJpeg(t) /\ ~PipeInitJpeg(t)
      BY <1>1, <3>3 DEF VideoStep, Stop, JoinVenc, RtmpDeinit, RtspDelete, RtspNull, Start,
         RtspCreate, RtspSession, RtmpInit, PipeInit, photoVars
    <3> QED BY <3>1, <3>2, <3>3
  <2>9. Moved(t)
    BY <1>1, Effects
  <2>10. pc'[Main] \in InDeinit \cup {"up", "audiooff", "audiojoin"} => audio # "none"
    BY <1>1, <2>2, <2>3, <2>6, <2>9, Moves, Alone DEF Created, Moved, InDeinit, InInit
  <2>11. (\A u \in Callers : ~Inside(u))' => pc[t] = "pipe3" \/ pc'[Main] = "audiooff"
    BY <2>9 DEF Moved, Inside, InDeinit, InInit
  <2>12. /\ pc'[t] = "join0" => venc[0] # "none" /\ venc[1] # "none" /\ venc' = venc
         /\ pc'[t] = "join1" => venc'[1] # "none"
         /\ pc'[t] = "pipe1" => venc'[0] # "none"
         /\ pc'[t] = "pipe3" => venc'[0] # "none" /\ venc'[1] # "none"
         /\ pc[t] = "pipe3" => venc'[0] # "none" /\ venc'[1] # "none" /\ jpeg' # "none"
         /\ pc'[t] \in {"join0", "join1", "join3"} => jpeg' # "none"
         /\ pc'[t] # "stop"
    <3>1. Order[pc[t]] = pc'[t] \/ pc[t] \in {"null", "pipe3"}
      BY <1>1, Moves
    <3> QED BY <1>1, <2>3, <2>6, <2>7, <2>8, <2>9, <3>1, OrderIs DEF Created, Moved
  <2>13. \A u \in Callers : pc'[u] \in InDeinit \cup InInit => u = t
    BY <2>1
  <2> QED BY <2>10, <2>11, <2>12, <2>13, <2>5 DEF Created, InDeinit, InInit
<1>2. CASE MainStep
  <2>1. fails' = 0 => fails = 0
    BY <1>2 DEF TypeOK, MainStep, AudioInit, AudioStop, AudioJoin, boundVars
  <2>2. fails' = 0 /\ pc'[Main] = "up" => audio' # "none"
    BY <1>2, <2>1, MainMoves DEF AudioInit, TypeOK
  <2>3. pc'[Main] = "audiojoin" => audio' = audio
    BY <1>2, MainMoves DEF AudioStop, audioVars
  <2>4. \A u \in Callers : Inside(u)' => Inside(u)
    BY <1>2, MainMoves DEF Inside, InDeinit, InInit
  <2>5. pc'[Main] = "up" => (\A u \in Callers : ~Inside(u)' => ~Inside(u)) /\ pc[Main] = "audio"
    BY <1>2, MainMoves DEF Inside, InDeinit, InInit
  <2> QED BY <1>0, <1>2, <2>1, <2>2, <2>3, <2>4, <2>5, MainMoves
          DEF VideoInv, Created, Callers, InDeinit, InInit
<1>3. ASSUME NEW t \in Callers, (t = Main /\ Exit) \/ (t \in Clients /\ Restart(t))
      PROVE  Created'
  <2>1. Solo
    BY <1>0 DEF VideoInv
  <2>2. Created /\ UNCHANGED <<venc, audio, jpeg, fails>>
    BY <1>0, <1>3, <2>1, Enters DEF VideoInv
  <2>3. \A u \in Callers : pc'[u] \in InDeinit \cup InInit => pc'[u] = "stop"
    BY <1>0, <1>3, <2>1, Enters DEF Inside
  <2>4. pc[Main] = "up" /\ (\A u \in Callers : ~Inside(u)) /\ Inside(t)'
    BY <1>0, <1>3, <2>1, Enters DEF Inside, InDeinit
  <2> QED BY <2>2, <2>3, <2>4 DEF Created, InDeinit, InInit
<1>4. CASE (\E c \in Photographers : Photo(c)) \/ JpegThread \/ EncodeJpeg
             \/ (\E s \in Streams : Venc(s)) \/ AudioThread \/ UNCHANGED vars
  <2>0. Created /\ UNCHANGED <<pc, fails>>
    BY <1>0, <1>4, Aside DEF VideoInv
  <2>1. \A s \in Streams : venc'[s] = "none" => venc[s] = "none"
    BY <1>4, VencStep, VencAside DEF TypeOK
  <2>2. jpeg' = "none" => jpeg = "none"
    BY <1>4, JpegStep, VencStep DEF AudioThread, AudioLoop, AudioTest, AudioLock, AudioSent,
       photoVars
  <2>3. audio' = "none" => audio = "none"
    <3>1. CASE AudioThread
      BY <3>1 DEF AudioThread, AudioLoop, AudioTest, AudioLock, AudioSent, NextSession
    <3>2. (\E c \in Photographers : Photo(c)) \/ JpegThread \/ EncodeJpeg \/ UNCHANGED vars
            => UNCHANGED audio
      BY DEF Photo, JpegThread, EncodeJpeg, audioVars, vars
    <3> QED BY <1>4, <3>1, <3>2, VencStep
  <2>4. 0 \in Streams /\ 1 \in Streams
    BY DEF Streams
  <2> QED BY <2>0, <2>1, <2>2, <2>3, <2>4 DEF Created, Inside
<1> QED BY <1>0, <1>1, <1>2, <1>3, <1>4 DEF Next, Callers

\* A step keeps the invariant.
LEMMA NextVideoInv == ASSUME TypeOK, VideoInv, [Next]_vars PROVE VideoInv'
<1> SUFFICES ASSUME why' = {} PROVE VideoInv'
  BY DEF VideoInv
<1> QED BY NextSolo, NextJoined, NextStanding, NextServed, NextMutexHeld, NextStopped,
           NextAudioPhases, NextCreated DEF VideoInv

\* The invariant holds, with the types.
LEMMA VideoInvariant == Spec => [](TypeOK /\ VideoInv)
<1>1. TypeOK /\ VideoInv /\ [Next]_vars => (TypeOK /\ VideoInv)'
  BY NextTyped, NextVideoInv
<1> QED BY <1>1, InitTyped, InitVideoInv, PTL DEF Spec

-----------------------------------------------------------------------------
(* The properties.                                                         *)

\* The server, the session, the channel and the muxer an encoder thread uses
\* are there as long as it uses them, and it is alone in the server.
THEOREM EncodersAreSafe == Spec => []EncodersSafe
<1>1. TypeOK /\ VideoInv => EncodersSafe
  BY DEF VideoInv, EncodersSafe, Served, MutexHeld
<1> QED BY <1>1, VideoInvariant, PTL

\* A join finds no thread only if a block could not be set up.
MissedOnFailure == "nothread" \in why => fails > 0

\* A step that finds no thread to join follows a failure.
LEMMA NextMissed ==
  ASSUME TypeOK, VideoInv, MissedOnFailure, [Next]_vars
  PROVE  MissedOnFailure'
<1>2. CASE UNCHANGED vars
  BY <1>2 DEF MissedOnFailure, vars, boundVars
<1>3. CASE Next
  <2> SUFFICES ASSUME "nothread" \in why' PROVE fails' > 0
    BY DEF MissedOnFailure
  <2>1. why = {} /\ Created /\ fails \in Nat /\ 0 \in Streams /\ 1 \in Streams /\ Main \in Callers
    BY <1>3 DEF Next, VideoInv, TypeOK, Streams, Callers
  <2>2. ASSUME NEW t \in Callers, VideoStep(t) PROVE fails' > 0
    <3>1. JoinVenc(t) \/ JoinJpeg(t)
      BY <2>1, <2>2 DEF VideoStep, Stop, RtmpDeinit, RtspDelete, RtspNull, Start,
         RtspCreate, RtspSession, RtmpInit, PipeInit, PipeInitJpeg
    <3>2. CASE JoinVenc(t)
      <4>1. pc[t] \in {"join0", "join1"} /\ venc[Of[pc[t]]] = "none" /\ fails' = fails
        BY <2>1, <3>2 DEF JoinVenc, boundVars
      <4> QED BY <2>1, <4>1, OfIs DEF Created
    <3>3. CASE JoinJpeg(t)
      <4>1. pc[t] = "join3" /\ jpeg = "none" /\ fails' = fails
        BY <2>1, <3>3 DEF JoinJpeg, boundVars
      <4> QED BY <2>1, <4>1 DEF Created
    <3> QED BY <3>1, <3>2, <3>3
  <2>3. CASE MainStep
    <3>1. AudioJoin
      BY <2>1, <2>3 DEF MainStep, AudioInit, AudioStop
    <3>2. pc[Main] = "audiojoin" /\ audio = "none" /\ fails' = fails
      BY <2>1, <3>1 DEF AudioJoin, boundVars
    <3> QED BY <2>1, <3>2 DEF Created
  <2>4. CASE Exit
    BY <2>1, <2>4 DEF Exit
  <2>5. ASSUME NEW c \in Clients, Restart(c) PROVE FALSE
    BY <2>1, <2>5 DEF Restart
  <2>6. CASE (\E c \in Photographers : Photo(c)) \/ JpegThread \/ EncodeJpeg
               \/ (\E s \in Streams : Venc(s)) \/ AudioThread
    BY <2>1, <2>6, Aside
  <2> QED BY <1>3, <2>2, <2>3, <2>4, <2>5, <2>6 DEF Next
<1> QED BY <1>2, <1>3

\* Every join finds a thread that comes to its end, as long as every block
\* could be set up.
THEOREM JoinsEndAlways == Spec => []JoinsEnd
<1>1. Init => MissedOnFailure
  BY DEF Init, MissedOnFailure
<1>2. TypeOK /\ VideoInv /\ MissedOnFailure => JoinsEnd
  BY DEF TypeOK, VideoInv, MissedOnFailure, JoinsEnd, Stopped, MutexHeld
<1>3. Spec => []MissedOnFailure
  BY <1>1, NextMissed, VideoInvariant, PTL DEF Spec
<1> QED BY <1>2, <1>3, VideoInvariant, PTL

\* What the audio thread finds when it is about to send, and when it sends.
LEMMA Exposed ==
  ASSUME TypeOK, VideoInv, why = {}
  PROVE  /\ audio \in {"wait", "tx"} =>
              \/ Live(turn)
              \/ \E t \in Callers : pc[t] \in Replacing
              \/ pc[Main] \in {"audiooff", "audiojoin"}
         /\ rtsp # "null" =>
              Live(turn) \/ \E t \in Callers : pc[t] \in Unset(turn)
<1>1. Standing /\ AudioPhases /\ turn \in {0, 1}
  BY DEF VideoInv, TypeOK, Streams
<1>2. CASE \A t \in Callers : pc[t] \notin Replacing
  BY <1>1, <1>2 DEF Standing, AudioPhases, Stopping, Live
<1>3. CASE \E t \in Callers : pc[t] \in Replacing
  <2>1. PICK t \in Callers : pc[t] \in Replacing
    BY <1>3
  <2>2. CASE pc[t] \in {"start", "create"}
    BY <1>1, <1>3, <2>2 DEF Standing
  <2>3. CASE pc[t] \in {"null", "sess0"}
    BY <1>3, <2>3 DEF Unset
  <2>4. CASE pc[t] = "sess1"
    BY <1>1, <1>3, <2>4 DEF Standing, Unset, Live
  <2> QED BY <2>1, <2>2, <2>3, <2>4 DEF Replacing
<1> QED BY <1>2, <1>3

\* Only the test takes the audio thread to where it waits to send.
LEMMA Tested ==
  ASSUME [Next]_vars, audio = "test", audio' = "wait"
  PROVE  rtsp # "null"
<1>1. CASE AudioThread
  BY <1>1 DEF AudioThread, AudioLoop, AudioTest, AudioLock, AudioSent, NextSession
<1>2. ASSUME NEW t \in Callers, VideoStep(t) PROVE FALSE
  BY <1>2 DEF VideoStep, Stop, JoinVenc, JoinJpeg, RtmpDeinit, RtspDelete, RtspNull, Start,
     RtspCreate, RtspSession, RtmpInit, PipeInit, PipeInitJpeg, audioVars
<1>3. CASE MainStep \/ Exit \/ \E c \in Clients : Restart(c)
  BY <1>3 DEF MainStep, AudioInit, AudioStop, AudioJoin, Exit, Restart, audioVars
<1>4. CASE (\E c \in Photographers : Photo(c)) \/ JpegThread \/ EncodeJpeg \/ UNCHANGED vars
  BY <1>4 DEF Photo, JpegThread, EncodeJpeg, vars, audioVars
<1> QED BY <1>1, <1>2, <1>3, <1>4, VencStep DEF Next

\* The audio thread, which no restart joins, meets a dead server or session
\* only at the steps AudioExposed names.
THEOREM AudioExposedThen == Spec => AudioExposed
<1>1. TypeOK /\ VideoInv => (why = {} /\ audio \in {"wait", "tx"} =>
         \/ Live(turn)
         \/ \E t \in Callers : pc[t] \in Replacing
         \/ pc[Main] \in {"audiooff", "audiojoin"})
  BY Exposed
<1>2. TypeOK /\ VideoInv /\ [Next]_vars =>
        [why = {} /\ audio = "test" /\ audio' = "wait" =>
           Live(turn) \/ \E t \in Callers : pc[t] \in Unset(turn)]_vars
  BY Exposed, Tested
<1> QED BY <1>1, <1>2, VideoInvariant, PTL DEF Spec, AudioExposed
-----------------------------------------------------------------------------
(* Photos: without a slip one request is on its way at most, and until it  *)
(* is answered nothing but its own picture can come: whatever the encoder  *)
(* makes for the channel's own first request is dropped before the flag is *)
(* looked at (PhotoInv).  A restart does not disturb this, because the     *)
(* channel is set up again only after the jpeg thread was joined           *)
(* (JpegJoined).                                                           *)

\* The steps before which the jpeg thread has been joined, or not been made.
JpegGone ==
  {"rtmpoff", "del", "null", "start", "create", "sess0", "sess1", "rtmpon",
   "pipe0", "pipe1", "pipe3"}
JpegJoined == why = {} => \A t \in Callers : pc[t] \in JpegGone => jpeg = "none"

\* Without a slip: what the picture, the request and the flags say of each other.
PhotoInv ==
  slips = {} =>
    /\ ~stale
    /\ jpeg = "none" => pic = "none" /\ ~wanted
    /\ jpeg = "first" /\ ~asked /\ pic # "none" => ~wanted
    /\ jpeg \notin {"none", "first"} /\ ~asked => pic = "none" /\ ~wanted
    /\ jpeg # "first" => pic # "old" /\ (pic # "none" => ~wanted)
    /\ jpeg = "save" => pic = "none" /\ ~wanted
    /\ shot # "none" => shot = "fresh" /\ jpeg = "save"
    /\ jpeg \in {"grab", "save"} => take
    /\ take => asked /\ asking = {}
    /\ asked /\ asking = {} => take
    /\ asking # {} => asked
    /\ \A c, d \in asking : c = d

\* What a caller's step does to the jpeg thread.
LEMMA JpegEffects ==
  ASSUME TypeOK, NEW t \in Callers, VideoStep(t), why' = {}
  PROVE  \/ pc[t] = "join3" /\ JpegDeinit
         \/ pc[t] = "pipe3" /\ JpegInit
         \/ pc[t] # "join3" /\ UNCHANGED photoVars
<1>1. CASE JoinJpeg(t)
  BY <1>1 DEF JoinJpeg
<1>2. CASE PipeInitJpeg(t)
  BY <1>2 DEF PipeInitJpeg
<1>3. CASE ~JoinJpeg(t) /\ ~PipeInitJpeg(t)
  BY <1>3 DEF VideoStep, Stop, JoinVenc, RtmpDeinit, RtspDelete, RtspNull, Start, RtspCreate,
     RtspSession, RtmpInit, PipeInit
<1> QED BY <1>1, <1>2, <1>3

\* What the other steps do to it.
LEMMA PhotoAside ==
  MainStep \/ Exit \/ (\E c \in Clients : Restart(c)) \/ (\E s \in Streams : Venc(s))
    \/ AudioThread \/ UNCHANGED vars
  => UNCHANGED photoVars
BY DEF MainStep, AudioInit, AudioStop, AudioJoin, Exit, Restart, Venc, VencLoop, VencGet,
   VencLock, VencSent, VencWritten, AudioThread, AudioLoop, AudioTest, AudioLock, AudioSent, vars

\* The jpeg thread that is gone stays so until its pipe is set up.
LEMMA NextJpegJoined ==
  ASSUME TypeOK, VideoInv, JpegJoined, [Next]_vars
  PROVE  JpegJoined'
<1> SUFFICES ASSUME why' = {} PROVE JpegJoined'
  BY DEF JpegJoined
<1>0. why = {}
  BY WasCalm
<1>1. ASSUME NEW t \in Callers, VideoStep(t) PROVE JpegJoined'
  <2>1. \A u \in Callers : u # t => pc'[u] \notin JpegGone
    BY <1>0, <1>1, CallerStep DEF JpegGone, InDeinit, InInit
  <2>2. pc'[t] \in JpegGone => pc[t] \in JpegGone \ {"pipe3"} \/ pc[t] = "join3"
    BY <1>1, Effects DEF Moved, JpegGone
  <2> QED BY <1>0, <1>1, <2>1, <2>2, JpegEffects DEF JpegJoined, JpegDeinit, photoVars
<1>2. CASE MainStep
  BY <1>0, <1>2, MainMoves DEF JpegJoined, JpegGone, Callers
<1>3. ASSUME NEW t \in Callers, (t = Main /\ Exit) \/ (t \in Clients /\ Restart(t))
      PROVE  JpegJoined'
  <2>1. Solo
    BY <1>0 DEF VideoInv
  <2> QED BY <1>0, <1>3, <2>1, Enters DEF JpegJoined, JpegGone
<1>4. CASE (\E c \in Photographers : Photo(c)) \/ JpegThread \/ EncodeJpeg
             \/ (\E s \in Streams : Venc(s)) \/ AudioThread \/ UNCHANGED vars
  <2>1. jpeg = "none" => jpeg' = "none"
    <3>1. CASE \E c \in Photographers : Photo(c)
      BY <3>1 DEF Photo, PhotoAsk, PhotoFlag
    <3>2. CASE JpegThread
      BY <3>2 DEF JpegThread, Jpeg, JpegFirst, JpegLoop, JpegLook, JpegGrab, JpegSave
    <3>3. CASE EncodeJpeg
      BY <3>3 DEF EncodeJpeg, Encode
    <3> QED BY <1>4, <3>1, <3>2, <3>3, PhotoAside DEF photoVars
  <2> QED BY <1>0, <1>4, <2>1, Aside DEF JpegJoined
<1> QED BY <1>0, <1>1, <1>2, <1>3, <1>4 DEF Next, Callers

\* A step keeps what holds without a slip.
LEMMA NextPhotoInv ==
  ASSUME TypeOK, JpegJoined, PhotoInv, [Next]_vars
  PROVE  PhotoInv'
<1> PhotoTypes
  BY DEF TypeOK
<1>1. CASE UNCHANGED photoVars
  BY <1>1 DEF PhotoInv, photoVars
<1>2. ASSUME NEW c \in Photographers, Photo(c) PROVE PhotoInv'
  <2>1. CASE PhotoAsk(c)
    BY <2>1 DEF PhotoAsk, PhotoInv, PhotoTypes, Aged
  <2>2. CASE PhotoFlag(c)
    BY <2>2 DEF PhotoFlag, PhotoInv, PhotoTypes
  <2> QED BY <1>2, <2>1, <2>2 DEF Photo
<1>3. CASE EncodeJpeg
  BY <1>3 DEF EncodeJpeg, Encode, PhotoInv, PhotoTypes
<1>4. CASE JpegThread
  <2> USE DEF PhotoInv, PhotoTypes
  <2>1. CASE JpegFirst
    BY <2>1 DEF JpegFirst
  <2>2. CASE JpegLoop(run)
    BY <2>2 DEF JpegLoop
  <2>3. CASE JpegLook
    BY <2>3 DEF JpegLook
  <2>4. CASE JpegGrab
    <3>1. CASE pic = "none"
      BY <2>4, <3>1 DEF JpegGrab
    <3>2. CASE pic # "none" /\ slips = {}
      <4>0. jpeg = "grab"
        BY <2>4 DEF JpegGrab
      <4>1. pic = "fresh" /\ ~wanted /\ take
        <5>1. pic # "old" /\ (pic # "none" => ~wanted) /\ take
          BY <3>2, <4>0
        <5>2. pic \in {"none", "fresh", "old"}
          BY DEF Picture
        <5>3. pic = "fresh"
          BY <3>2, <5>1, <5>2
        <5> QED BY <3>2, <5>1, <5>3
      <4>2. /\ shot' = "fresh" /\ pic' = "none" /\ jpeg' = "save"
            /\ UNCHANGED <<take, slips, wanted, asking, asked, stale>>
        BY <2>4, <3>2, <4>0, <4>1 DEF JpegGrab
      <4> QED BY <3>2, <4>0, <4>1, <4>2
    <3>3. CASE pic # "none" /\ slips # {}
      BY <2>4, <3>3 DEF JpegGrab
    <3> QED BY <3>1, <3>2, <3>3
  <2>5. CASE JpegSave
    BY <2>5 DEF JpegSave
  <2> QED BY <1>4, <2>1, <2>2, <2>3, <2>4, <2>5 DEF JpegThread, Jpeg
<1>5. ASSUME NEW t \in Callers, VideoStep(t), why = {} PROVE PhotoInv'
  <2>1. CASE JpegDeinit
    BY <2>1 DEF JpegDeinit, PhotoInv, PhotoTypes
  <2>2. CASE JpegInit /\ pc[t] = "pipe3"
    <3>1. jpeg = "none"
      BY <1>5, <2>2 DEF JpegJoined, JpegGone
    <3> QED BY <2>2, <3>1 DEF JpegInit, PhotoInv, PhotoTypes
  <2> QED BY <1>1, <1>5, <2>1, <2>2 DEF VideoStep, Stop, JoinVenc, JoinJpeg, RtmpDeinit,
          RtspDelete, RtspNull, Start, RtspCreate, RtspSession, RtmpInit, PipeInit, PipeInitJpeg
<1> QED BY <1>1, <1>2, <1>3, <1>4, <1>5, PhotoAside DEF Next

\* A photo shows what was there after it was asked for, and its flag stays up
\* until it is taken, unless requests crowd or a picture is late.
THEOREM PhotosAnswered == Spec => []PhotoAnswered
<1>1. Init => JpegJoined /\ PhotoInv
  BY DEF Init, PhotoInit, JpegJoined, PhotoInv
<1>2. TypeOK /\ VideoInv /\ JpegJoined /\ PhotoInv /\ [Next]_vars => (JpegJoined /\ PhotoInv)'
  BY NextJpegJoined, NextPhotoInv
<1>3. PhotoInv => PhotoAnswered
  BY DEF PhotoInv, PhotoAnswered
<1> QED BY <1>1, <1>2, <1>3, VideoInvariant, PTL DEF Spec
=============================================================================
