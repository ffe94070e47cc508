---------------------------- MODULE PhotoCapture ----------------------------
(***************************************************************************)
(* Taking a photo, in rv1106_ipc/video/video.c: a client asks the encoder  *)
(* for one picture and sets a flag; the jpeg thread, which looks at the    *)
(* flag now and then, fetches the picture, writes it to a file and clears  *)
(* the flag.  The channel holds one picture (external: the encoder makes   *)
(* as many as it was last asked for, here one, when there is room).        *)
(*                                                                         *)
(* Actions here leave everything but the photo alone; VideoRestart puts    *)
(* them together with the restarts.                                        *)
(***************************************************************************)
EXTENDS Integers

CONSTANTS
  Photographers, \* the clients that take photos
  MaxPhotos      \* bound: requests

VARIABLES
  jpeg,   \* the jpeg thread
  take,   \* take_photo_one
  wanted, \* the encoder is to make one more picture
  pic,    \* the picture in the channel: "old" if asked for again since
  shot,   \* the picture the thread has fetched, likewise
  asking, \* the clients between the two steps of rk_take_photo
  asked,  \* a request waits for its photo
  stale,  \* history: a photo was older than the request it answered
  slips,  \* history: what photos may suffer from, see below
  photos  \* counter of the bound

photoVars == <<jpeg, take, wanted, pic, shot, asking, asked, stale, slips, photos>>

JpegPc  == {"none", "first", "loop", "sleep", "grab", "save", "ended"}
Picture == {"none", "fresh", "old"}

PhotoTypes ==
  /\ jpeg \in JpegPc
  /\ take \in BOOLEAN /\ wanted \in BOOLEAN
  /\ pic \in Picture /\ shot \in Picture
  /\ asking \subseteq Photographers
  /\ asked \in BOOLEAN /\ stale \in BOOLEAN
  /\ slips \subseteq {"crowded", "timeout"}
  /\ photos \in Nat

PhotoInit ==
  /\ jpeg = "none"
  /\ take = FALSE /\ wanted = FALSE
  /\ pic = "none" /\ shot = "none"
  /\ asking = {}
  /\ asked = FALSE /\ stale = FALSE
  /\ slips = {}
  /\ photos = 0

\* rkipc_pipe_3_init: the channel is created and asked for a first picture,
\* the thread starts.
JpegInit ==
  /\ jpeg' = "first"
  /\ wanted' = TRUE
  /\ pic' = "none"
  /\ UNCHANGED <<take, shot, asking, asked, stale, slips, photos>>

\* The join of the thread and rkipc_pipe_3_deinit; the flag stays.
JpegDeinit ==
  /\ jpeg = "ended"
  /\ jpeg' = "none"
  /\ wanted' = FALSE
  /\ pic' = "none"
  /\ UNCHANGED <<take, shot, asking, asked, stale, slips, photos>>

-----------------------------------------------------------------------------
(* rk_take_photo, in a client's thread.                                    *)

Aged(p) == IF p = "fresh" THEN "old" ELSE p

\* RK_MPI_VENC_StartRecvFrame, which fails without the channel.  The request
\* is crowded if another one has not been answered.
PhotoAsk(c) ==
  /\ c \notin asking
  /\ photos < MaxPhotos
  /\ photos' = photos + 1
  /\ asking' = asking \cup {c}
  /\ wanted' = (wanted \/ jpeg # "none")
  /\ pic' = Aged(pic)
  /\ shot' = Aged(shot)
  /\ slips' = IF asked \/ asking # {} THEN slips \cup {"crowded"} ELSE slips
  /\ asked' = TRUE
  /\ UNCHANGED <<jpeg, take, stale>>

PhotoFlag(c) ==
  /\ c \in asking
  /\ asking' = asking \ {c}
  /\ take' = TRUE
  /\ UNCHANGED <<jpeg, wanted, pic, shot, asked, stale, slips, photos>>

\* The encoder (external).
Encode ==
  /\ wanted /\ pic = "none" /\ jpeg # "none"
  /\ wanted' = FALSE
  /\ pic' = "fresh"
  /\ UNCHANGED <<jpeg, take, shot, asking, asked, stale, slips, photos>>

-----------------------------------------------------------------------------
(* rkipc_get_jpeg.                                                         *)

\* Slip: the first picture is left for the first photo.
JpegFirstKept ==
  /\ jpeg = "first"
  /\ jpeg' = "loop"
  /\ UNCHANGED <<take, wanted, pic, shot, asking, asked, stale, slips, photos>>

\* The first picture is dropped, if it comes within a second.
JpegFirst ==
  /\ jpeg = "first"
  /\ \/ pic # "none" /\ pic' = "none" /\ UNCHANGED slips
     \/ pic = "none" /\ slips' = slips \cup {"timeout"} /\ UNCHANGED pic
  /\ jpeg' = "loop"
  /\ UNCHANGED <<take, wanted, shot, asking, asked, stale, photos>>

JpegLoop(run) ==
  /\ jpeg = "loop"
  /\ jpeg' = IF run THEN "sleep" ELSE "ended"
  /\ UNCHANGED <<take, wanted, pic, shot, asking, asked, stale, slips, photos>>

\* 300 ms later.
JpegLook ==
  /\ jpeg = "sleep"
  /\ jpeg' = IF take THEN "grab" ELSE "loop"
  /\ UNCHANGED <<take, wanted, pic, shot, asking, asked, stale, slips, photos>>

\* RK_MPI_VENC_GetStream: a picture, or none for a second; then the request is
\* given up.
JpegGrab ==
  /\ jpeg = "grab"
  /\ \/ /\ pic # "none"
        /\ shot' = pic
        /\ pic' = "none"
        /\ jpeg' = "save"
        /\ UNCHANGED <<take, slips>>
     \/ /\ pic = "none"
        /\ take' = FALSE
        /\ slips' = slips \cup {"timeout"}
        /\ jpeg' = "loop"
        /\ UNCHANGED <<shot, pic>>
  /\ UNCHANGED <<wanted, asking, asked, stale, photos>>

\* The photo is written and the flag cleared, whoever set it.
JpegSave ==
  /\ jpeg = "save"
  /\ stale' = (stale \/ shot = "old")
  /\ asked' = FALSE
  /\ shot' = "none"
  /\ take' = FALSE
  /\ jpeg' = "loop"
  /\ UNCHANGED <<wanted, pic, asking, slips, photos>>

Jpeg(run) == JpegFirst \/ JpegLoop(run) \/ JpegLook \/ JpegGrab \/ JpegSave
=============================================================================
