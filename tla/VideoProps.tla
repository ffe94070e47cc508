----------------------------- MODULE VideoProps ----------------------------
(***************************************************************************)
(* What holds of the video pipeline as long as its restarts do not overlap *)
(* each other or main's exit, and what is left exposed.                    *)
(***************************************************************************)
EXTENDS VideoRestart

\* An encoder thread that sends has a live server and a live session, one that
\* works has a channel and an open muxer, and it is alone in the server: the
\* pointers it tested before it took the mutex are good because nobody deletes
\* or replaces them before it has been joined.
EncodersSafe ==
  /\ TypeOK
  /\ why = {} => \A s \in Streams :
       /\ venc[s] \in {"get", "wait", "tx", "write"} => chan[s] /\ rtmp[s]
       /\ venc[s] \in {"wait", "tx"} => rtsp = "live" /\ sess[s] = "live"
       /\ venc[s] = "tx" => mutex = s

\* The audio thread, which no restart joins, begins to send to a dead server
\* or session only between the deletion of the server and the clearing of its
\* pointer, and between the creation of the next server and of the session;
\* and while it sends they die only if a restart deletes them meanwhile, or
\* main does for good.
Live(s) == rtsp = "live" /\ sess[s] = "live"
Unset(s) == {"null", "sess0"} \cup (IF s = 1 THEN {"sess1"} ELSE {})
Replacing == {"null", "start", "create", "sess0", "sess1"}
AudioExposed ==
  /\ [](why = {} /\ audio \in {"wait", "tx"} =>
         \/ Live(turn)
         \/ \E t \in Callers : pc[t] \in Replacing
         \/ pc[Main] \in {"audiooff", "audiojoin"})
  /\ [][why = {} /\ audio = "test" /\ audio' = "wait" =>
         Live(turn) \/ \E t \in Callers : pc[t] \in Unset(turn)]_vars

\* Every pthread_join of a restart or of the exit finds a thread nobody has
\* joined, unless a block could not be set up, and nothing stands in that
\* thread's way to its end: the run flag stays cleared up to the last join, and
\* the mutex it may be waiting for is held by a thread that has only to finish
\* sending.  (That sending and encoding return is taken for granted.)
JoinsEnd ==
  /\ "nothread" \in why => fails > 0
  /\ why = {} =>
       /\ \A t \in Callers : pc[t] \in {"join0", "join1", "join3"} => ~run
       /\ mutex # Nobody =>
            (mutex = Audio /\ audio = "tx") \/ (mutex \in Streams /\ venc[mutex] = "tx")

\* A photo shows what was there after it was asked for, and the flag of a
\* photo that is asked for stays up until it is taken, over restarts too, but
\* for two mishaps: requests that crowd, since one flag and one picture serve
\* them all, and a picture that did not come within a second.
PhotoAnswered ==
  slips = {} =>
    /\ ~stale
    /\ why = {} /\ asked /\ asking = {} => take
=============================================================================
